---- MODULE Spec2Model ----
(***************************************************************************)
(* Screen-resolution detection of quick-accent (src/src/screen/mod.rs).    *)
(*                                                                         *)
(* Text is modelled at character level: a string is a sequence of          *)
(* one-character strings, a document is the sequence of its lines (what    *)
(* str::lines() yields).  The outputs of the external tools are drawn as   *)
(* structured records and rendered to text the way the tools print them;   *)
(* the probes then scan that text exactly as the Rust code does.           *)
(*                                                                         *)
(* Numbers: parse::<f32>() is modelled on optionally signed decimal        *)
(* integers (exact below 2^24, the f32 mantissa); no tool output holds     *)
(* a decimal point, an exponent or the words inf/nan.  i32 keeps its       *)
(* 32-bit width: an overflowing + or - either aborts the pass (a build     *)
(* with overflow checks) or wraps modulo 2^32 (a build without).           *)
(*                                                                         *)
(* The configuration (src/src/config, the start of main) is modelled next  *)
(* to it: the state of the configuration path on disk (disk), the result   *)
(* of AppConfig::load (loaded) and the configuration main goes on with     *)
(* (app, and its screen section config).  Its f32 fields are held in       *)
(* hundredths and written with a decimal point.                            *)
(*                                                                         *)
(* Specifications: Spec and SpecLive are one detection pass, SpecScan is   *)
(* each scan on a document of its own, SpecConfig is the configuration     *)
(* load of main.                                                           *)
(***************************************************************************)
EXTENDS Integers, Sequences, FiniteSets, TLC

VARIABLES pc, result, last, tried, mouse, outputName, checked, config,
          disk, loaded, app

vars == <<pc, result, last, tried, mouse, outputName, checked, config, disk, loaded, app>>

-----------------------------------------------------------------------------
(* Strings                                                                 *)

Digits == <<"0", "1", "2", "3", "4", "5", "6", "7", "8", "9">>

IsDigit(c) == \E i \in 1..10 : Digits[i] = c

DigitVal(c) == (CHOOSE i \in 1..10 : Digits[i] = c) - 1

\* str::starts_with
StartsWith(s, p) == Len(p) <= Len(s) /\ SubSeq(s, 1, Len(p)) = p

\* str::contains(&str)
Contains(s, n) == \E i \in 0..(Len(s) - Len(n)) : SubSeq(s, i + 1, i + Len(n)) = n

HasChar(s, c) == \E i \in 1..Len(s) : s[i] = c

\* position of the first c in s, 0 when there is none
Find(s, c) ==
    IF HasChar(s, c)
    THEN CHOOSE i \in 1..Len(s) : s[i] = c /\ \A j \in 1..(i - 1) : s[j] # c
    ELSE 0

\* str::split_once(char)
SplitOnce(s, c) ==
    IF HasChar(s, c)
    THEN [ok |-> TRUE, l |-> SubSeq(s, 1, Find(s, c) - 1),
          r |-> SubSeq(s, Find(s, c) + 1, Len(s))]
    ELSE [ok |-> FALSE, l |-> <<>>, r |-> <<>>]

\* str::split(char).nth(1): the piece between the first and the second c
SplitNth1(s, c) ==
    LET a == SplitOnce(s, c)
        b == SplitOnce(a.r, c)
    IN  IF a.ok
        THEN [ok |-> TRUE, v |-> IF b.ok THEN b.l ELSE a.r]
        ELSE [ok |-> FALSE, v |-> <<>>]

RECURSIVE TrimStartMatches(_, _)
TrimStartMatches(s, c) ==
    IF s # <<>> /\ Head(s) = c THEN TrimStartMatches(Tail(s), c) ELSE s

RECURSIVE TrimEndMatches(_, _)
\* str::trim_end_matches(char)
TrimEndMatches(s, c) ==
    IF s # <<>> /\ s[Len(s)] = c
    THEN TrimEndMatches(SubSeq(s, 1, Len(s) - 1), c)
    ELSE s

\* str::trim_matches(char)
TrimMatches(s, c) == TrimEndMatches(TrimStartMatches(s, c), c)

\* str::trim (the only whitespace a line holds is the blank)
Trim(s) == TrimMatches(s, " ")

RECURSIVE SplitWhitespace(_)
\* str::split_whitespace
SplitWhitespace(s) ==
    LET t == TrimStartMatches(s, " ")
        a == SplitOnce(t, " ")
    IN  IF t = <<>> THEN <<>>
        ELSE IF a.ok THEN <<a.l>> \o SplitWhitespace(a.r)
        ELSE <<t>>

-----------------------------------------------------------------------------
(* Numbers                                                                 *)

\* i32::MAX
I32Max == 2147483647

I32Min == -I32Max - 1

AllDigits(s) == s # <<>> /\ \A i \in 1..Len(s) : IsDigit(s[i])

RECURSIVE AccPos(_, _)
\* checked accumulation of a positive literal; -1 on overflow
AccPos(s, acc) ==
    IF s = <<>> THEN acc
    ELSE IF acc < 0 \/ acc > (I32Max - DigitVal(Head(s))) \div 10 THEN -1
    ELSE AccPos(Tail(s), acc * 10 + DigitVal(Head(s)))

RECURSIVE AccNeg(_, _)
\* checked accumulation of a negative literal; 1 on overflow
AccNeg(s, acc) ==
    IF s = <<>> THEN acc
    ELSE IF acc > 0 \/ acc < ((I32Min + DigitVal(Head(s))) + 9) \div 10 THEN 1
    ELSE AccNeg(Tail(s), acc * 10 - DigitVal(Head(s)))

NoNum == [ok |-> FALSE, v |-> 0]

\* str::parse::<i32>: optional sign, digits, value within the 32-bit range
ParseI32(s) ==
    IF s # <<>> /\ Head(s) = "-"
    THEN IF AllDigits(Tail(s)) /\ AccNeg(Tail(s), 0) <= 0
         THEN [ok |-> TRUE, v |-> AccNeg(Tail(s), 0)] ELSE NoNum
    ELSE IF s # <<>> /\ Head(s) = "+"
    THEN IF AllDigits(Tail(s)) /\ AccPos(Tail(s), 0) >= 0
         THEN [ok |-> TRUE, v |-> AccPos(Tail(s), 0)] ELSE NoNum
    ELSE IF AllDigits(s) /\ AccPos(s, 0) >= 0
         THEN [ok |-> TRUE, v |-> AccPos(s, 0)] ELSE NoNum

\* str::parse::<f32> on signed decimal integers: a minus sign is accepted
\* and yields a negative value
ParseF32(s) ==
    IF s # <<>> /\ Head(s) = "-"
    THEN IF AllDigits(Tail(s)) /\ AccNeg(Tail(s), 0) <= 0
         THEN [ok |-> TRUE, v |-> AccNeg(Tail(s), 0)] ELSE NoNum
    ELSE IF s # <<>> /\ Head(s) = "+"
    THEN IF AllDigits(Tail(s)) /\ AccPos(Tail(s), 0) >= 0
         THEN [ok |-> TRUE, v |-> AccPos(Tail(s), 0)] ELSE NoNum
    ELSE IF AllDigits(s) /\ AccPos(s, 0) >= 0
         THEN [ok |-> TRUE, v |-> AccPos(s, 0)] ELSE NoNum

\* `f as i32`: the value itself, saturated at the ends of the range
AsI32(f) == IF f > I32Max THEN I32Max ELSE IF f < I32Min THEN I32Min ELSE f

\* a + b in i32: ovf when the sum leaves the range, v the sum modulo 2^32
AddI32(a, b) ==
    IF b > 0 /\ a > I32Max - b
    THEN [ovf |-> TRUE, v |-> (a - I32Max) + (b - I32Max) - 2]
    ELSE IF b < 0 /\ a < I32Min - b
    THEN [ovf |-> TRUE, v |-> (a + I32Max) + (b + I32Max) + 2]
    ELSE [ovf |-> FALSE, v |-> a + b]

\* a - b in i32
SubI32(a, b) ==
    IF b = I32Min
    THEN IF a >= 0 THEN [ovf |-> TRUE, v |-> a + I32Min]
         ELSE [ovf |-> FALSE, v |-> (a + I32Max) + 1]
    ELSE AddI32(a, -b)

RECURSIVE DecNat(_)
DecNat(n) ==
    IF n < 10 THEN <<Digits[n + 1]>>
    ELSE DecNat(n \div 10) \o <<Digits[(n % 10) + 1]>>

\* an integer printed in decimal (printf %d)
Dec(n) == IF n < 0 THEN <<"-">> \o DecNat(-n) ELSE DecNat(n)

-----------------------------------------------------------------------------
(* Results                                                                 *)

\* ScreenInfo, wrapped in the Option / Result the probes return
Res(w, h) == [ok |-> TRUE, width |-> w, height |-> h, abort |-> FALSE]

\* None, or Err(..): every error value is dropped by `if let Ok`
NoRes == [ok |-> FALSE, width |-> 0, height |-> 0, abort |-> FALSE]

\* impl Default for ScreenInfo
DefaultWidth == 1920

DefaultHeight == 1080

DefaultScreen == Res(DefaultWidth, DefaultHeight)

-----------------------------------------------------------------------------
(* Key/value scans                                                         *)

KwFocusedTrue == <<"\"", "f", "o", "c", "u", "s", "e", "d", "\"", ":", " ", "t", "r", "u", "e">>

KwCurrentTrue == <<"\"", "c", "u", "r", "r", "e", "n", "t", "\"", ":", " ", "t", "r", "u", "e">>

KwWidth == <<"\"", "w", "i", "d", "t", "h", "\"", ":">>

KwHeight == <<"\"", "h", "e", "i", "g", "h", "t", "\"", ":">>

KwName == <<"\"", "n", "a", "m", "e", "\"", ":">>

KwOutput == <<"\"", "o", "u", "t", "p", "u", "t", "\"", ":">>

\* line.split(':').nth(1), trim, trim_end_matches(','), parse().ok(): a
\* failed parse stores None over whatever the field held
NumField(line, old) ==
    LET p == SplitNth1(line, ":")
    IN  IF p.ok THEN ParseF32(TrimEndMatches(Trim(p.v), ",")) ELSE old

RECURSIVE HyprFocusedScan(_, _, _, _)
\* the loop of detect_hyprland_focused over output_str.lines()
HyprFocusedScan(lines, inFocused, w, h) ==
    IF lines = <<>> THEN NoRes
    ELSE LET line == Trim(Head(lines))
             rest == Tail(lines)
         IN  IF Contains(line, KwFocusedTrue)
             THEN HyprFocusedScan(rest, TRUE, w, h)
             ELSE IF inFocused /\ StartsWith(line, KwWidth)
             THEN HyprFocusedScan(rest, inFocused, NumField(line, w), h)
             ELSE IF inFocused /\ StartsWith(line, KwHeight)
             THEN HyprFocusedScan(rest, inFocused, w, NumField(line, h))
             ELSE IF inFocused /\ line = <<"}">>
             THEN IF w.ok /\ h.ok THEN Res(w.v, h.v) ELSE NoRes
             ELSE HyprFocusedScan(rest, inFocused, w, h)

\* detect_hyprland_focused on the text hyprctl printed
ParseHyprFocused(lines) == HyprFocusedScan(lines, FALSE, NoNum, NoNum)

RECURSIVE FirstOutputName(_)
\* the inner loop of detect_sway_focused: the first "output": line of the
\* whole document
FirstOutputName(lines) ==
    IF lines = <<>> THEN [ok |-> FALSE, v |-> <<>>]
    ELSE LET line == Trim(Head(lines))
             p == SplitNth1(line, ":")
         IN  IF StartsWith(line, KwOutput) /\ p.ok
             THEN [ok |-> TRUE,
                   v |-> TrimEndMatches(TrimMatches(Trim(p.v), "\""), ",")]
             ELSE FirstOutputName(Tail(lines))

\* focused_output_name of detect_sway_focused
FocusedOutputName(lines) ==
    IF \E i \in 1..Len(lines) : Contains(Trim(lines[i]), KwFocusedTrue)
    THEN FirstOutputName(lines)
    ELSE [ok |-> FALSE, v |-> <<>>]

RECURSIVE SwayByNameScan(_, _, _, _, _, _)
\* the loop of parse_sway_output_by_name
SwayByNameScan(lines, target, inTarget, inMode, w, h) ==
    IF lines = <<>> THEN NoRes
    ELSE LET line == Trim(Head(lines))
             rest == Tail(lines)
         IN  IF StartsWith(line, KwName) /\ Contains(line, target)
             THEN SwayByNameScan(rest, target, TRUE, inMode, w, h)
             ELSE IF inTarget /\ Contains(line, KwCurrentTrue)
             THEN SwayByNameScan(rest, target, inTarget, TRUE, w, h)
             ELSE IF inTarget /\ inMode /\ StartsWith(line, KwWidth)
             THEN SwayByNameScan(rest, target, inTarget, inMode, NumField(line, w), h)
             ELSE IF inTarget /\ inMode /\ StartsWith(line, KwHeight)
             THEN SwayByNameScan(rest, target, inTarget, inMode, w, NumField(line, h))
             ELSE IF inMode /\ line = <<"}">>
             THEN IF w.ok /\ h.ok THEN Res(w.v, h.v)
                  ELSE SwayByNameScan(rest, target, inTarget, FALSE, NoNum, NoNum)
             ELSE IF inTarget /\ line = <<"]">>
             THEN NoRes
             ELSE SwayByNameScan(rest, target, inTarget, inMode, w, h)

ParseSwayOutputByName(lines, target) ==
    SwayByNameScan(lines, target, FALSE, FALSE, NoNum, NoNum)

RECURSIVE HyprctlScan(_, _, _)
\* the loop of parse_hyprctl_output: the first width and the first height
\* met, wherever they stand
HyprctlScan(lines, w, h) ==
    IF lines = <<>> THEN NoRes
    ELSE LET line == Trim(Head(lines))
             w2 == IF StartsWith(line, KwWidth) THEN NumField(line, w) ELSE w
             h2 == IF ~StartsWith(line, KwWidth) /\ StartsWith(line, KwHeight)
                   THEN NumField(line, h) ELSE h
         IN  IF w2.ok /\ h2.ok THEN Res(w2.v, h2.v)
             ELSE HyprctlScan(Tail(lines), w2, h2)

ParseHyprctlOutput(lines) == HyprctlScan(lines, NoNum, NoNum)

RECURSIVE SwaymsgScan(_, _, _, _)
\* the loop of parse_swaymsg_output
SwaymsgScan(lines, inMode, w, h) ==
    IF lines = <<>> THEN NoRes
    ELSE LET line == Trim(Head(lines))
             cur == Contains(line, KwCurrentTrue)
             in2 == inMode \/ cur
             w2 == IF ~cur /\ inMode /\ StartsWith(line, KwWidth)
                   THEN NumField(line, w) ELSE w
             h2 == IF ~cur /\ inMode /\ ~StartsWith(line, KwWidth)
                      /\ StartsWith(line, KwHeight)
                   THEN NumField(line, h) ELSE h
         IN  IF in2 /\ line = <<"}">>
             THEN IF w2.ok /\ h2.ok THEN Res(w2.v, h2.v)
                  ELSE SwaymsgScan(Tail(lines), FALSE, NoNum, NoNum)
             ELSE SwaymsgScan(Tail(lines), in2, w2, h2)

ParseSwaymsgOutput(lines) == SwaymsgScan(lines, FALSE, NoNum, NoNum)

-----------------------------------------------------------------------------
(* Positional scans                                                        *)

KwConnected == <<"c", "o", "n", "n", "e", "c", "t", "e", "d">>

KwDisconnected == <<"d", "i", "s", "c", "o", "n", "n", "e", "c", "t", "e", "d">>

KwPrimary == <<"p", "r", "i", "m", "a", "r", "y">>

KwCurrent == <<"c", "u", "r", "r", "e", "n", "t">>

NoGeom == [ok |-> FALSE, width |-> 0, height |-> 0, x |-> 0, y |-> 0]

\* the nested split_once / parse of get_x11_screen_at_position on one
\* whitespace-separated part: WxH+X+Y with W, H as f32 and X, Y as i32
ParseGeometry(part) ==
    LET a == SplitOnce(part, "+")
        r == SplitOnce(a.l, "x")
        p == SplitOnce(a.r, "+")
    IN  IF a.ok /\ r.ok /\ p.ok
           /\ ParseF32(r.l).ok /\ ParseF32(r.r).ok
           /\ ParseI32(p.l).ok /\ ParseI32(p.r).ok
        THEN [ok |-> TRUE, width |-> ParseF32(r.l).v, height |-> ParseF32(r.r).v,
              x |-> ParseI32(p.l).v, y |-> ParseI32(p.r).v]
        ELSE NoGeom

\* the split_once / parse of parse_xrandr_primary and
\* parse_xrandr_any_connected on one part: only what precedes the first
\* '+' is read
ParseResPart(part) ==
    LET a == SplitOnce(part, "+")
        r == SplitOnce(a.l, "x")
    IN  IF a.ok /\ r.ok /\ ParseF32(r.l).ok /\ ParseF32(r.r).ok
        THEN Res(ParseF32(r.l).v, ParseF32(r.r).v)
        ELSE NoRes

\* part.contains("x") && part.contains("+")
LooksLikeGeometry(part) == HasChar(part, "x") /\ HasChar(part, "+")

\* the part the inner loop of get_x11_screen_at_position stops at: the
\* first one holding an 'x' and a '+' (it breaks whether or not it parses)
FirstGeometryPart(parts) ==
    IF \E i \in 1..Len(parts) : LooksLikeGeometry(parts[i])
    THEN [ok |-> TRUE,
          v |-> parts[CHOOSE i \in 1..Len(parts) : LooksLikeGeometry(parts[i])
                          /\ \A j \in 1..(i - 1) : ~LooksLikeGeometry(parts[j])]]
    ELSE [ok |-> FALSE, v |-> <<>>]

\* one axis of the containment test and of the distance, in i32 arithmetic:
\* inside is (p >= s && p < s + len), dist the distance_x / distance_y
\* expression, ovf whether an addition or subtraction that was evaluated
\* left the i32 range
Axis(p, s, len, testUpper) ==
    LET sum == AddI32(s, len)
        m1  == SubI32(sum.v, 1)
        far == SubI32(p, m1.v)
        near == SubI32(s, p)
        inside == p >= s /\ p < sum.v
    IN  [inside |-> inside,
         testOvf |-> p >= s /\ testUpper /\ sum.ovf,
         dist |-> IF p < s THEN near.v ELSE IF p >= sum.v THEN far.v ELSE 0,
         distOvf |-> IF p < s THEN near.ovf
                     ELSE sum.ovf \/ (p >= sum.v /\ (m1.ovf \/ far.ovf))]

\* one parsed entry against the cursor (x, y)
EntryEval(x, y, g) ==
    LET ax == Axis(x, g.x, AsI32(g.width), TRUE)
        ay == Axis(y, g.y, AsI32(g.height), ax.inside)
        hit == ax.inside /\ ay.inside
        tot == AddI32(ax.dist, ay.dist)
    IN  [hit |-> hit,
         dist |-> tot.v,
         ovf |-> ax.testOvf \/ ay.testOvf
                 \/ (~hit /\ (ax.distOvf \/ ay.distOvf \/ tot.ovf))]

IsConnectedLine(line) == Contains(line, KwConnected) /\ ~Contains(line, KwDisconnected)

\* an arithmetic overflow panicked: the probe returns nothing at all
Aborted == [ok |-> FALSE, width |-> 0, height |-> 0, abort |-> TRUE]

RECURSIVE PositionScan(_, _, _, _, _, _)
\* the loop of get_x11_screen_at_position and its closing `if let Some`;
\* chk is whether the build checks arithmetic overflow
PositionScan(lines, x, y, closest, dist, chk) ==
    IF lines = <<>> THEN closest
    ELSE LET line == Head(lines)
             part == FirstGeometryPart(SplitWhitespace(line))
             g == ParseGeometry(part.v)
             e == EntryEval(x, y, g)
         IN  IF IsConnectedLine(line) /\ part.ok /\ g.ok
             THEN IF e.ovf /\ chk THEN Aborted
                  ELSE IF e.hit THEN Res(g.width, g.height)
                  ELSE IF e.dist < dist
                  THEN PositionScan(Tail(lines), x, y, Res(g.width, g.height), e.dist, chk)
                  ELSE PositionScan(Tail(lines), x, y, closest, dist, chk)
             ELSE PositionScan(Tail(lines), x, y, closest, dist, chk)

\* get_x11_screen_at_position on the text xrandr printed
ScreenAtPosition(lines, x, y, chk) == PositionScan(lines, x, y, NoRes, I32Max, chk)

RECURSIVE FirstResPart(_)
\* the inner loop of the primary / any-connected lookups: the first part
\* that looks like a geometry and whose resolution parses
FirstResPart(parts) ==
    IF parts = <<>> THEN NoRes
    ELSE IF LooksLikeGeometry(Head(parts)) /\ ParseResPart(Head(parts)).ok
    THEN ParseResPart(Head(parts))
    ELSE FirstResPart(Tail(parts))

RECURSIVE ParseXrandrPrimary(_)
ParseXrandrPrimary(lines) ==
    IF lines = <<>> THEN NoRes
    ELSE IF Contains(Head(lines), KwPrimary) /\ Contains(Head(lines), KwConnected)
            /\ FirstResPart(SplitWhitespace(Head(lines))).ok
    THEN FirstResPart(SplitWhitespace(Head(lines)))
    ELSE ParseXrandrPrimary(Tail(lines))

RECURSIVE ParseXrandrAnyConnected(_)
ParseXrandrAnyConnected(lines) ==
    IF lines = <<>> THEN NoRes
    ELSE IF IsConnectedLine(Head(lines))
            /\ FirstResPart(SplitWhitespace(Head(lines))).ok
    THEN FirstResPart(SplitWhitespace(Head(lines)))
    ELSE ParseXrandrAnyConnected(Tail(lines))

\* the xrandr fallback of detect_x11_focused: primary, else any connected
ParseXrandrFallback(lines) ==
    IF ParseXrandrPrimary(lines).ok THEN ParseXrandrPrimary(lines)
    ELSE ParseXrandrAnyConnected(lines)

\* ParseWxH: split_once('x') and two f32 parses (wlr-randr token, modes line)
ParseWxH(tok) ==
    LET r == SplitOnce(tok, "x")
    IN  IF r.ok /\ ParseF32(r.l).ok /\ ParseF32(r.r).ok
        THEN Res(ParseF32(r.l).v, ParseF32(r.r).v)
        ELSE NoRes

RECURSIVE ParseWlrRandrStops(_)
\* a scan that a marked line ends whether or not its first token parses
ParseWlrRandrStops(lines) ==
    IF lines = <<>> THEN NoRes
    ELSE LET parts == SplitWhitespace(Trim(Head(lines)))
         IN  IF Contains(Head(lines), KwCurrent)
             THEN IF parts # <<>> THEN ParseWxH(Head(parts)) ELSE NoRes
             ELSE ParseWlrRandrStops(Tail(lines))

RECURSIVE ParseWlrRandrOutput(_)
ParseWlrRandrOutput(lines) ==
    IF lines = <<>> THEN NoRes
    ELSE LET parts == SplitWhitespace(Trim(Head(lines)))
         IN  IF Contains(Head(lines), KwCurrent) /\ parts # <<>> /\ ParseWxH(Head(parts)).ok
             THEN ParseWxH(Head(parts))
             ELSE ParseWlrRandrOutput(Tail(lines))

RECURSIVE ParseDrmModes(_)
ParseDrmModes(lines) ==
    IF lines = <<>> THEN NoRes
    ELSE IF ParseWxH(Trim(Head(lines))).ok THEN ParseWxH(Trim(Head(lines)))
    ELSE ParseDrmModes(Tail(lines))

KwCard == <<"c", "a", "r", "d">>

RECURSIVE DetectFromFirstReadable(_)
\* a probe that ends at the first readable modes file, whatever it holds
DetectFromFirstReadable(entries) ==
    IF entries = <<>> THEN NoRes
    ELSE LET e == Head(entries)
         IN  IF StartsWith(e.name, KwCard) /\ HasChar(e.name, "-") /\ e.readable
             THEN ParseDrmModes(e.modes)
             ELSE DetectFromFirstReadable(Tail(entries))

RECURSIVE DetectFromSysfs(_)
\* detect_from_sysfs over the entries read_dir yields: [name, readable,
\* modes]; an unreadable directory yields no entry
DetectFromSysfs(entries) ==
    IF entries = <<>> THEN NoRes
    ELSE LET e == Head(entries)
         IN  IF StartsWith(e.name, KwCard) /\ HasChar(e.name, "-") /\ e.readable
                /\ ParseDrmModes(e.modes).ok
             THEN ParseDrmModes(e.modes)
             ELSE DetectFromSysfs(Tail(entries))

RECURSIVE MouseScan(_, _, _)
\* the loop of detect_x11_focused over the lines xdotool printed
MouseScan(lines, mx, my) ==
    IF lines = <<>> THEN [ok |-> mx.ok /\ my.ok, x |-> mx.v, y |-> my.v]
    ELSE LET line == Head(lines)
             val == ParseI32(SubSeq(line, 3, Len(line)))
         IN  IF StartsWith(line, <<"X", "=">>) THEN MouseScan(Tail(lines), val, my)
             ELSE IF StartsWith(line, <<"Y", "=">>) THEN MouseScan(Tail(lines), mx, val)
             ELSE MouseScan(Tail(lines), mx, my)

ParseMouse(lines) == MouseScan(lines, NoNum, NoNum)

-----------------------------------------------------------------------------
(* The environment: what the external tools print                          *)

\* the i-th resolution of a document, so that objects can be told apart
ModeTable == <<<<1920, 1080>>, <<2560, 1440>>, <<3840, 2160>>, <<1280, 720>>>>

ModeW(i) == ModeTable[((i - 1) % Len(ModeTable)) + 1][1]

ModeH(i) == ModeTable[((i - 1) % Len(ModeTable)) + 1][2]

RECURSIVE Flatten(_)
Flatten(ss) == IF ss = <<>> THEN <<>> ELSE Head(ss) \o Flatten(Tail(ss))

\* sequences over S of length lo..hi
SeqsOf(S, lo, hi) == UNION {[1..n -> S] : n \in lo..hi}

Indent == <<" ", " ", " ", " ">>

\* a "key": value line of pretty-printed JSON
KvLine(key, val, comma) ==
    Indent \o key \o <<" ">> \o val \o (IF comma THEN <<",">> ELSE <<>>)

BoolText(b) == IF b THEN <<"t", "r", "u", "e">> ELSE <<"f", "a", "l", "s", "e">>

Quoted(s) == <<"\"">> \o s \o <<"\"">>

\* hyprctl monitors -j: a monitor object is its width and height lines (the
\* height may be missing, or the width), its focused line, before or after
\* them, and its closing line: a lone brace, or a brace and a comma when
\* another object follows
MaxMonitors == 2

Monitors ==
    {m \in [hasW : BOOLEAN, hasH : BOOLEAN, focused : BOOLEAN,
            focusFirst : BOOLEAN, lone : BOOLEAN] :
        m.hasW \/ (m.hasH /\ m.focusFirst /\ m.lone)}

HyprDocs == SeqsOf(Monitors, 0, MaxMonitors)

MonitorDims(m, i) ==
    (IF m.hasW THEN <<KvLine(KwWidth, Dec(ModeW(i)), TRUE)>> ELSE <<>>)
    \o (IF m.hasH THEN <<KvLine(KwHeight, Dec(ModeH(i)), TRUE)>> ELSE <<>>)

MonitorFocus(m) == <<KvLine(<<"\"", "f", "o", "c", "u", "s", "e", "d", "\"", ":">>, BoolText(m.focused), TRUE)>>

RenderMonitor(m, i) ==
    <<<<"{">>>>
    \o <<KvLine(<<"\"", "i", "d", "\"", ":">>, Dec(i - 1), TRUE)>>
    \o (IF m.focusFirst THEN MonitorFocus(m) \o MonitorDims(m, i)
        ELSE MonitorDims(m, i) \o MonitorFocus(m))
    \o <<KvLine(<<"\"", "v", "r", "r", "\"", ":">>, BoolText(FALSE), FALSE)>>
    \o <<IF m.lone THEN <<"}">> ELSE <<"}", ",">>>>

RenderHypr(doc) ==
    <<<<"[">>>> \o Flatten([i \in 1..Len(doc) |-> RenderMonitor(doc[i], i)]) \o <<<<"]">>>>

\* swaymsg -t get_workspaces: each workspace has a focused flag and the
\* name of its output
MaxWorkspaces == 2

OutputNames == {<<"D", "P", "-", "1">>, <<"e", "D", "P", "-", "1">>}

Workspaces == [focused : BOOLEAN, output : OutputNames]

WorkspaceDocs == SeqsOf(Workspaces, 0, MaxWorkspaces)

RenderWorkspace(w, i, n) ==
    <<<<" ", " ", "{">>,
      KvLine(<<"\"", "n", "u", "m", "\"", ":">>, Dec(i), TRUE),
      KvLine(<<"\"", "f", "o", "c", "u", "s", "e", "d", "\"", ":">>, BoolText(w.focused), TRUE),
      KvLine(KwOutput, Quoted(w.output), TRUE),
      KvLine(<<"\"", "u", "r", "g", "e", "n", "t", "\"", ":">>, BoolText(FALSE), FALSE),
      IF i = n THEN <<" ", " ", "}">> ELSE <<" ", " ", "}", ",">>>>

RenderWorkspaces(doc) ==
    <<<<"[">>>>
    \o Flatten([i \in 1..Len(doc) |-> RenderWorkspace(doc[i], i, Len(doc))])
    \o <<<<"]">>>>

\* swaymsg -t get_outputs: each output has a name and a list of modes; a
\* mode is marked current or not and may lack its height
MaxOutputs == 2

SwayModes == [current : BOOLEAN, hasH : BOOLEAN]

ModeLists ==
    {<<>>,
     <<[current |-> TRUE, hasH |-> TRUE]>>,
     <<[current |-> TRUE, hasH |-> FALSE]>>,
     <<[current |-> FALSE, hasH |-> TRUE], [current |-> TRUE, hasH |-> TRUE]>>}

Outputs == [name : OutputNames, modes : ModeLists, modesLast : BOOLEAN]

OutputDocs == SeqsOf(Outputs, 0, MaxOutputs)

\* the resolution of mode j of output i
SwayModeIndex(i, j) == 2 * (i - 1) + j

RenderSwayMode(m, k, isLast) ==
    <<<<" ", " ", " ", " ", " ", " ", "{">>,
      KvLine(<<"\"", "c", "u", "r", "r", "e", "n", "t", "\"", ":">>, BoolText(m.current), TRUE)>>
    \o <<KvLine(KwWidth, Dec(ModeW(k)), m.hasH)>>
    \o (IF m.hasH THEN <<KvLine(KwHeight, Dec(ModeH(k)), FALSE)>> ELSE <<>>)
    \o <<IF isLast THEN <<" ", " ", " ", " ", " ", " ", "}">> ELSE <<" ", " ", " ", " ", " ", " ", "}", ",">>>>

\* the modes array closes with a lone bracket when it is the last field of
\* the output object, with a bracket and a comma when a field follows
RenderOutput(o, i, n) ==
    <<<<" ", " ", "{">>,
      KvLine(KwName, Quoted(o.name), TRUE),
      KvLine(<<"\"", "m", "o", "d", "e", "s", "\"", ":">>, <<"[">>, FALSE)>>
    \o Flatten([j \in 1..Len(o.modes) |->
                  RenderSwayMode(o.modes[j], SwayModeIndex(i, j), j = Len(o.modes))])
    \o (IF o.modesLast THEN <<<<" ", " ", " ", " ", "]">>>>
        ELSE <<<<" ", " ", " ", " ", "]", ",">>, KvLine(<<"\"", "a", "c", "t", "i", "v", "e", "\"", ":">>, BoolText(TRUE), FALSE)>>)
    \o <<IF i = n THEN <<" ", " ", "}">> ELSE <<" ", " ", "}", ",">>>>

RenderOutputs(doc) ==
    <<<<"[">>>>
    \o Flatten([i \in 1..Len(doc) |-> RenderOutput(doc[i], i, Len(doc))])
    \o <<<<"]">>>>

\* xdotool getmouselocation --shell: the cursor, or a text with no Y line
Cursors ==
    {[x |-> 0, y |-> 100], [x |-> 2000, y |-> 100],
     [x |-> 5000, y |-> 3000], [x |-> I32Max, y |-> 100]}

MouseDocs == {[x |-> c.x, y |-> c.y, hasY |-> b] : c \in Cursors, b \in BOOLEAN}

RenderMouse(d) ==
    <<<<"X", "=">> \o Dec(d.x)>>
    \o (IF d.hasY THEN <<<<"Y", "=">> \o Dec(d.y)>> ELSE <<>>)
    \o <<<<"S", "C", "R", "E", "E", "N", "=", "0">>>>

\* xrandr --current: one line per output, connected or not, marked primary
\* or not, with a geometry token that is well formed (WxH+X+Y), lacks its
\* second '+' (WxH+X), has a non-numeric X, or is missing
MaxScreens == 2

Geometries ==
    {[form |-> "full", w |-> 1920, h |-> 1080, x |-> 0, y |-> 0],
     [form |-> "full", w |-> 2560, h |-> 1440, x |-> 1920, y |-> 0],
     [form |-> "full", w |-> 1280, h |-> 720, x |-> I32Max, y |-> 0],
     [form |-> "noY", w |-> 3840, h |-> 2160, x |-> 0, y |-> 0],
     [form |-> "junkX", w |-> 3840, h |-> 2160, x |-> 0, y |-> 0],
     [form |-> "none", w |-> 0, h |-> 0, x |-> 0, y |-> 0]}

Screens ==
    [connected : {TRUE}, primary : {FALSE}, geom : Geometries]
    \cup [connected : {TRUE}, primary : {TRUE},
          geom : {g \in Geometries : g.w \in {2560, 3840} /\ g.form \in {"full", "noY"}}]
    \cup [connected : {FALSE}, primary : {FALSE},
          geom : {g \in Geometries : g.w \in {0, 1920}}]
    \cup [connected : {FALSE}, primary : {TRUE}, geom : {g \in Geometries : g.w = 1920}]

XrandrDocs == SeqsOf(Screens, 0, MaxScreens)

\* printf("%dx%d+%d+%d")
RenderGeometry(g) ==
    IF g.form = "full"
    THEN Dec(g.w) \o <<"x">> \o Dec(g.h) \o <<"+">> \o Dec(g.x) \o <<"+">> \o Dec(g.y)
    ELSE IF g.form = "noY"
    THEN Dec(g.w) \o <<"x">> \o Dec(g.h) \o <<"+">> \o Dec(g.x)
    ELSE IF g.form = "junkX"
    THEN Dec(g.w) \o <<"x">> \o Dec(g.h) \o <<"+">> \o <<"a">> \o <<"+">> \o Dec(g.y)
    ELSE <<>>

RenderScreen(s, i) ==
    <<<<"D", "P", "-">> \o Dec(i)
      \o (IF s.connected THEN <<" ", "c", "o", "n", "n", "e", "c", "t", "e", "d">> ELSE <<" ", "d", "i", "s", "c", "o", "n", "n", "e", "c", "t", "e", "d">>)
      \o (IF s.primary THEN <<" ", "p", "r", "i", "m", "a", "r", "y">> ELSE <<>>)
      \o (IF s.geom.form = "none" THEN <<>> ELSE <<" ">> \o RenderGeometry(s.geom))
      \o <<" ", "(", "n", "o", "r", "m", "a", "l", ")">>>>
    \o (IF s.connected /\ s.geom.form # "none"
        THEN <<<<" ", " ", " ">> \o Dec(s.geom.w) \o <<"x">> \o Dec(s.geom.h) \o <<" ", "6", "0", ".", "0", "0", "*", "+">>>>
        ELSE <<>>)

RenderXrandr(doc) ==
    <<<<"S", "c", "r", "e", "e", "n", " ", "0", ":", " ", "c", "u", "r", "r", "e", "n", "t", " ", "3", "8", "4", "0", " ", "x", " ", "1", "0", "8", "0">>>>
    \o Flatten([i \in 1..Len(doc) |-> RenderScreen(doc[i], i)])

\* wlr-randr: output headers and mode lines
MaxWlrLines == 3

\* a line of the listing: the header of an output (of the first or the
\* second make) or mode k of the mode table, marked current or not
WlrLines ==
    {[header |-> TRUE, k |-> 1, current |-> FALSE],
     [header |-> TRUE, k |-> 2, current |-> FALSE],
     [header |-> FALSE, k |-> 1, current |-> TRUE],
     [header |-> FALSE, k |-> 2, current |-> FALSE],
     [header |-> FALSE, k |-> 3, current |-> TRUE]}

WlrDocs == SeqsOf(WlrLines, 0, MaxWlrLines)

\* the second make holds the letters of the word "current"
RenderWlrLine(l) ==
    IF l.header
    THEN IF l.k = 1
         THEN <<"D", "P", "-", "1", " ", "\"", "D", "e", "l", "l", " ", "I", "n", "c", ".", " ", "(", "D", "P", "-", "1", ")", "\"">>
         ELSE <<"e", "D", "P", "-", "1", " ", "\"", "C", "o", "n", "c", "u", "r", "r", "e", "n", "t", " ", "T", "e", "c", "h", " ", "(", "e", "D", "P", "-", "1", ")", "\"">>
    ELSE <<" ", " ", " ", " ">> \o Dec(ModeW(l.k)) \o <<"x">> \o Dec(ModeH(l.k))
         \o <<" ", "p", "x", ",", " ", "6", "0", ".", "0", "0", "0", "0", "0", "0", " ", "H", "z">>
         \o (IF l.current THEN <<" ", "(", "p", "r", "e", "f", "e", "r", "r", "e", "d", ",", " ", "c", "u", "r", "r", "e", "n", "t", ")">> ELSE <<>>)

RenderWlr(doc) == [i \in 1..Len(doc) |-> RenderWlrLine(doc[i])]

\* /sys/class/drm: entries with a name and a modes file that is missing or
\* unreadable, empty, a list of modes, a list whose first width is written
\* with a minus sign, or a list whose first mode is an interlaced one
\* (its height is followed by the letter i)
MaxDrmEntries == 2

DrmNames == {<<"v", "e", "r", "s", "i", "o", "n">>, <<"c", "a", "r", "d", "0">>, <<"c", "a", "r", "d", "0", "-", "D", "P", "-", "1">>}

DrmEntries == [name : DrmNames, file : {"unreadable", "empty", "modes", "negative", "interlaced"}]

DrmDocs == SeqsOf(DrmEntries, 0, MaxDrmEntries)

RenderModes(e, i) ==
    IF e.file = "modes"
    THEN <<Dec(ModeW(i)) \o <<"x">> \o Dec(ModeH(i)),
           Dec(ModeW(i + 1)) \o <<"x">> \o Dec(ModeH(i + 1))>>
    ELSE IF e.file = "negative"
    THEN <<Dec(-ModeW(i)) \o <<"x">> \o Dec(ModeH(i))>>
    ELSE IF e.file = "interlaced"
    THEN <<Dec(ModeW(i)) \o <<"x">> \o Dec(ModeH(i)) \o <<"i">>,
           Dec(ModeW(i + 1)) \o <<"x">> \o Dec(ModeH(i + 1))>>
    ELSE <<>>

RenderDrm(doc) ==
    [i \in 1..Len(doc) |->
        [name |-> doc[i].name, readable |-> doc[i].file # "unreadable",
         modes |-> RenderModes(doc[i], i)]]

\* what a command that exited with status 0 may print instead of the
\* document expected of it
GarbageText == <<<<"e", "r", "r", "o", "r", ":", " ", "u", "n", "e", "x", "p", "e", "c", "t", "e", "d", " ", "r", "e", "p", "l", "y">>>>

\* what running a command yields: it could not be spawned, it exited with a
\* non-zero status, it exited with status 0 and printed something else than
\* the expected document, or it printed a document
Outcomes(docs) ==
    {[kind |-> k, doc |-> <<>>] : k \in {"nospawn", "nonzero", "garbage"}}
    \cup {[kind |-> "ok", doc |-> d] : d \in docs}

\* the documents of one detection pass: at most one object each
PassMonitors == {m \in Monitors : m.hasW /\ m.hasH /\ m.lone}

PassHyprDocs == {<<>>} \cup {<<m>> : m \in PassMonitors}

PassWorkspaceDocs == {<<>>} \cup {<<w>> : w \in Workspaces}

PassOutputs ==
    {o \in Outputs : o.modesLast /\ Len(o.modes) <= 1
                        /\ \A j \in 1..Len(o.modes) : o.modes[j].hasH}

PassOutputDocs == {<<>>} \cup {<<o>> : o \in PassOutputs}

PassWlrDocs == {<<>>} \cup {<<l>> : l \in WlrLines}

PassMouseDocs == {d \in MouseDocs : d.x \in {2000, I32Max} /\ d.y = 100}

PassXrandrDocs == {<<>>} \cup {<<s>> : s \in Screens}

PassDrmDocs == {<<>>} \cup {<<e>> : e \in DrmEntries}

-----------------------------------------------------------------------------
(* The probes on the outcome of their command                              *)

\* the lines a command printed
TextOf(o, rendered) == IF o.kind = "garbage" THEN GarbageText ELSE rendered

\* .output()? and !status.success(): nothing is read unless the command was
\* spawned and exited with status 0
Ran(o) == o.kind \in {"ok", "garbage"}

\* detect_hyprland_focused
ProbeHyprFocused(o) ==
    IF Ran(o) THEN ParseHyprFocused(TextOf(o, RenderHypr(o.doc))) ELSE NoRes

\* detect_sway_focused up to `if let Some(output_name)`
ProbeSwayWorkspaces(o) ==
    IF Ran(o) THEN FocusedOutputName(TextOf(o, RenderWorkspaces(o.doc)))
    ELSE [ok |-> FALSE, v |-> <<>>]

\* detect_sway_focused from `if let Some(output_name)` on
ProbeSwayOutputs(o, name) ==
    IF Ran(o) THEN ParseSwayOutputByName(TextOf(o, RenderOutputs(o.doc)), name) ELSE NoRes

\* the three blocks of detect_wayland_primary_screen
ProbeWlrRandr(o) ==
    IF Ran(o) THEN ParseWlrRandrOutput(TextOf(o, RenderWlr(o.doc))) ELSE NoRes

ProbeHyprPrimary(o) ==
    IF Ran(o) THEN ParseHyprctlOutput(TextOf(o, RenderHypr(o.doc))) ELSE NoRes

ProbeSwayPrimary(o) ==
    IF Ran(o) THEN ParseSwaymsgOutput(TextOf(o, RenderOutputs(o.doc))) ELSE NoRes

\* detect_x11_focused up to `if let (Some(x), Some(y))`
ProbeMouse(o) ==
    IF Ran(o) THEN ParseMouse(TextOf(o, RenderMouse(o.doc)))
    ELSE [ok |-> FALSE, x |-> 0, y |-> 0]

\* get_x11_screen_at_position
ProbeXrandrPosition(o, m, chk) ==
    IF Ran(o) THEN ScreenAtPosition(TextOf(o, RenderXrandr(o.doc)), m.x, m.y, chk) ELSE NoRes

\* the xrandr fallback of detect_x11_focused
ProbeXrandrPrimary(o) ==
    IF Ran(o) THEN ParseXrandrFallback(TextOf(o, RenderXrandr(o.doc))) ELSE NoRes

\* detect_from_sysfs: read_dir fails ("nospawn") or yields the entries
ProbeSysfs(o) == IF o.kind = "ok" THEN DetectFromSysfs(RenderDrm(o.doc)) ELSE NoRes

-----------------------------------------------------------------------------
(* One detection pass: ScreenInfo::detect                                  *)

NoLast == [probe |-> "none", kind |-> "none", reply |-> <<>>, res |-> NoRes]

NoMouse == [x |-> 0, y |-> 0]

\* ScreenConfig: the flags of the screen section of the configuration
ScreenConfigs ==
    [prefer_focused_screen : BOOLEAN,
     allow_x11_fallback : BOOLEAN,
     debug_screen_detection : BOOLEAN]

\* impl Default for ScreenConfig
DefaultScreenConfig ==
    [prefer_focused_screen |-> TRUE,
     allow_x11_fallback |-> TRUE,
     debug_screen_detection |-> TRUE]

------------------------------------------------------------------------------
(* The configuration: AppConfig, its RON text, AppConfig::load, main       *)

\* impl Default for WindowConfig; f32 values are held in hundredths
DefaultWindowConfig ==
    [width_fraction |-> 75, height |-> 10000, y_position_fraction |-> 25,
     center_horizontally |-> TRUE, x_offset |-> 0]

\* impl Default for AppConfig (ToolConfig::default() is test_key: true)
DefaultAppConfig ==
    [window |-> DefaultWindowConfig, screen |-> DefaultScreenConfig,
     tool |-> [test_key |-> TRUE]]

\* the place of an AppConfig where there is none: the Err of a Result, a
\* binding not made yet
NoAppConfig ==
    [window |-> [width_fraction |-> 0, height |-> 0, y_position_fraction |-> 0,
                 center_horizontally |-> FALSE, x_offset |-> 0],
     screen |-> [prefer_focused_screen |-> FALSE, allow_x11_fallback |-> FALSE,
                 debug_screen_detection |-> FALSE],
     tool |-> [test_key |-> FALSE]]

\* an f32 of h hundredths as the serializer writes it: 75 is 0.75,
\* 10000 is 100.0
RenderF32(h) ==
    Dec(h \div 100) \o <<".">>
    \o (IF h % 10 = 0 THEN <<Digits[((h % 100) \div 10) + 1]>>
        ELSE <<Digits[((h % 100) \div 10) + 1], Digits[(h % 10) + 1]>>)

\* a decimal literal with at most two fraction digits read as hundredths
ParseHundredths(s) ==
    LET a == SplitOnce(s, ".")
    IN  IF a.ok
        THEN IF AllDigits(a.l) /\ AllDigits(a.r) /\ Len(a.r) <= 2 /\ Len(a.l) <= 6
             THEN [ok |-> TRUE,
                   v |-> AccPos(a.l, 0) * 100
                         + (IF Len(a.r) = 1 THEN 10 * DigitVal(a.r[1])
                            ELSE 10 * DigitVal(a.r[1]) + DigitVal(a.r[2]))]
             ELSE NoNum
        ELSE IF AllDigits(s) /\ Len(s) <= 6
        THEN [ok |-> TRUE, v |-> AccPos(s, 0) * 100]
        ELSE NoNum

\* the names of the sections and fields of AppConfig as the text holds them
RonKeys ==
    [window |-> <<"w", "i", "n", "d", "o", "w">>,
     screen |-> <<"s", "c", "r", "e", "e", "n">>,
     tool |-> <<"t", "o", "o", "l">>,
     width_fraction |-> <<"w", "i", "d", "t", "h", "_", "f", "r", "a", "c", "t", "i", "o", "n">>,
     height |-> <<"h", "e", "i", "g", "h", "t">>,
     y_position_fraction |-> <<"y", "_", "p", "o", "s", "i", "t", "i", "o", "n", "_", "f", "r", "a", "c", "t", "i", "o", "n">>,
     center_horizontally |-> <<"c", "e", "n", "t", "e", "r", "_", "h", "o", "r", "i", "z", "o", "n", "t", "a", "l", "l", "y">>,
     x_offset |-> <<"x", "_", "o", "f", "f", "s", "e", "t">>,
     prefer_focused_screen |-> <<"p", "r", "e", "f", "e", "r", "_", "f", "o", "c", "u", "s", "e", "d", "_", "s", "c", "r", "e", "e", "n">>,
     allow_x11_fallback |-> <<"a", "l", "l", "o", "w", "_", "x", "1", "1", "_", "f", "a", "l", "l", "b", "a", "c", "k">>,
     debug_screen_detection |-> <<"d", "e", "b", "u", "g", "_", "s", "c", "r", "e", "e", "n", "_", "d", "e", "t", "e", "c", "t", "i", "o", "n">>,
     test_key |-> <<"t", "e", "s", "t", "_", "k", "e", "y">>]

\* ron::ser::to_string_pretty(self, PrettyConfig::default()), as lines: a
\* `name: (` line opens a section, `name: value,` lines hold its fields, a
\* `),` line closes it
RenderConfig(c) ==
    LET RonField(key, val) == Indent \o Indent \o key \o <<":", " ">> \o val \o <<",">>
        RonOpen(key) == Indent \o key \o <<":", " ", "(">>
        RonClose == Indent \o <<")", ",">>
    IN  <<<<"(">>,
          RonOpen(RonKeys.window),
          RonField(RonKeys.width_fraction, RenderF32(c.window.width_fraction)),
          RonField(RonKeys.height, RenderF32(c.window.height)),
          RonField(RonKeys.y_position_fraction, RenderF32(c.window.y_position_fraction)),
          RonField(RonKeys.center_horizontally, BoolText(c.window.center_horizontally)),
          RonField(RonKeys.x_offset, RenderF32(c.window.x_offset)),
          RonClose,
          RonOpen(RonKeys.screen),
          RonField(RonKeys.prefer_focused_screen, BoolText(c.screen.prefer_focused_screen)),
          RonField(RonKeys.allow_x11_fallback, BoolText(c.screen.allow_x11_fallback)),
          RonField(RonKeys.debug_screen_detection,
                   BoolText(c.screen.debug_screen_detection)),
          RonClose,
          RonOpen(RonKeys.tool),
          RonField(RonKeys.test_key, BoolText(c.tool.test_key)),
          RonClose,
          <<")">>>>

\* the section (at the top level) or the field (inside the section sec) of
\* AppConfig that a line named key stands for
FieldOf(sec, key) ==
    CASE sec = "top" /\ key = RonKeys.window -> "window"
      [] sec = "top" /\ key = RonKeys.screen -> "screen"
      [] sec = "top" /\ key = RonKeys.tool -> "tool"
      [] sec = "window" /\ key = RonKeys.width_fraction -> "width_fraction"
      [] sec = "window" /\ key = RonKeys.height -> "height"
      [] sec = "window" /\ key = RonKeys.y_position_fraction -> "y_position_fraction"
      [] sec = "window" /\ key = RonKeys.center_horizontally -> "center_horizontally"
      [] sec = "window" /\ key = RonKeys.x_offset -> "x_offset"
      [] sec = "screen" /\ key = RonKeys.prefer_focused_screen -> "prefer_focused_screen"
      [] sec = "screen" /\ key = RonKeys.allow_x11_fallback -> "allow_x11_fallback"
      [] sec = "screen" /\ key = RonKeys.debug_screen_detection -> "debug_screen_detection"
      [] sec = "tool" /\ key = RonKeys.test_key -> "test_key"
      [] OTHER -> "none"

\* Err(..) of load_from_path
LoadErr == [ok |-> FALSE, cfg |-> NoAppConfig]

\* the field f of c set from the text val, when val is of the field's type
SetField(c, f, val) ==
    LET n == ParseHundredths(val)
        b == val = BoolText(TRUE)
        isBool == val \in {BoolText(TRUE), BoolText(FALSE)}
    IN  CASE f = "width_fraction" /\ n.ok ->
                [ok |-> TRUE, cfg |-> [c EXCEPT !.window.width_fraction = n.v]]
          [] f = "height" /\ n.ok ->
                [ok |-> TRUE, cfg |-> [c EXCEPT !.window.height = n.v]]
          [] f = "y_position_fraction" /\ n.ok ->
                [ok |-> TRUE, cfg |-> [c EXCEPT !.window.y_position_fraction = n.v]]
          [] f = "x_offset" /\ n.ok ->
                [ok |-> TRUE, cfg |-> [c EXCEPT !.window.x_offset = n.v]]
          [] f = "center_horizontally" /\ isBool ->
                [ok |-> TRUE, cfg |-> [c EXCEPT !.window.center_horizontally = b]]
          [] f = "prefer_focused_screen" /\ isBool ->
                [ok |-> TRUE, cfg |-> [c EXCEPT !.screen.prefer_focused_screen = b]]
          [] f = "allow_x11_fallback" /\ isBool ->
                [ok |-> TRUE, cfg |-> [c EXCEPT !.screen.allow_x11_fallback = b]]
          [] f = "debug_screen_detection" /\ isBool ->
                [ok |-> TRUE, cfg |-> [c EXCEPT !.screen.debug_screen_detection = b]]
          [] f = "test_key" /\ isBool ->
                [ok |-> TRUE, cfg |-> [c EXCEPT !.tool.test_key = b]]
          [] OTHER -> LoadErr

RECURSIVE RonScan(_, _, _, _)
\* ron::from_str::<AppConfig> on text laid out one section line and one
\* field per line: sections and fields in any order, each exactly once,
\* each value of its field's type; anything else is an error. The scan
\* starts with RonScan(lines, "start", {}, NoAppConfig)
RonScan(lines, sec, seen, c) ==
    IF lines = <<>>
    THEN IF sec = "end" /\ Cardinality(seen) = 12 THEN [ok |-> TRUE, cfg |-> c] ELSE LoadErr
    ELSE LET t == Trim(Head(lines))
             a == SplitOnce(t, ":")
             val == TrimEndMatches(Trim(a.r), ",")
             f == FieldOf(sec, Trim(a.l))
         IN  CASE sec = "start" ->
                    IF t = <<"(">> THEN RonScan(Tail(lines), "top", seen, c) ELSE LoadErr
               [] sec = "top" ->
                    IF t = <<")">> THEN RonScan(Tail(lines), "end", seen, c)
                    ELSE IF a.ok /\ val = <<"(">> /\ f # "none" /\ f \notin seen
                    THEN RonScan(Tail(lines), f, seen \cup {f}, c)
                    ELSE LoadErr
               [] sec = "end" ->
                    IF t = <<>> THEN RonScan(Tail(lines), sec, seen, c) ELSE LoadErr
               [] OTHER ->
                    IF t \in {<<")", ",">>, <<")">>} THEN RonScan(Tail(lines), "top", seen, c)
                    ELSE IF a.ok /\ f # "none" /\ f \notin seen /\ SetField(c, f, val).ok
                    THEN RonScan(Tail(lines), sec, seen \cup {f}, SetField(c, f, val).cfg)
                    ELSE LoadErr

\* what the file at the configuration path may hold: the text of the
\* default configuration with any screen flags, of a configuration that
\* differs from the default in every field, such a text with its last line
\* or with one field line missing, something that is no RON at all, nothing
ConfigTexts ==
    {RenderConfig([DefaultAppConfig EXCEPT !.screen = s]) : s \in ScreenConfigs}
    \cup {RenderConfig(
              [window |-> [width_fraction |-> 50, height |-> 12000,
                           y_position_fraction |-> 5, center_horizontally |-> FALSE,
                           x_offset |-> 410],
               screen |-> [prefer_focused_screen |-> FALSE, allow_x11_fallback |-> TRUE,
                           debug_screen_detection |-> FALSE],
               tool |-> [test_key |-> FALSE]]),
          SubSeq(RenderConfig(DefaultAppConfig), 1, 16),
          SubSeq(RenderConfig(DefaultAppConfig), 1, 11)
              \o SubSeq(RenderConfig(DefaultAppConfig), 13, 17),
          GarbageText, <<>>}

\* the configuration path on disk. parent: the directory of the path is
\* there ("dir"), is not there ("absent"), cannot be there because a file
\* is in its place ("notdir"), or is there and may not be searched
\* ("noaccess"). file: what is at the path, a regular file with its text
\* and whether it may be read, a directory, or nothing. mkdir: whether a
\* missing parent can be created. room: whether a new file can be written
\* in the parent.
Disks ==
    [parent : {"dir", "noaccess"},
     file : [kind : {"absent", "dir"}, text : {<<>>}, readable : {FALSE}]
            \cup [kind : {"file"}, text : ConfigTexts, readable : BOOLEAN],
     mkdir : {FALSE}, room : BOOLEAN]
    \cup [parent : {"absent", "notdir"},
          file : [kind : {"absent"}, text : {<<>>}, readable : {FALSE}],
          mkdir : BOOLEAN, room : BOOLEAN]

\* Path::exists: the metadata of the path can be read
Exists(d) == d.parent = "dir" /\ d.file.kind # "absent"

\* AppConfig::save_to_path: fs::create_dir_all(parent), then
\* fs::write(path, text), which creates the file or replaces its contents
SaveToPath(c, d) ==
    LET made == CASE d.parent \in {"dir", "noaccess"} -> [ok |-> TRUE, disk |-> d]
                  [] d.parent = "absent" /\ d.mkdir ->
                        [ok |-> TRUE, disk |-> [d EXCEPT !.parent = "dir"]]
                  [] OTHER -> [ok |-> FALSE, disk |-> d]
        m == made.disk
    IN  IF made.ok /\ m.parent = "dir" /\ m.room /\ m.file.kind # "dir"
        THEN [ok |-> TRUE,
              disk |-> [m EXCEPT !.file = [kind |-> "file", text |-> RenderConfig(c),
                                           readable |-> TRUE]]]
        ELSE [ok |-> FALSE, disk |-> m]

\* main before `AppConfig::load()`
ConfigInit ==
    /\ pc = "load"
    /\ disk \in Disks
    /\ loaded = LoadErr
    /\ app = NoAppConfig
    /\ config = DefaultScreenConfig
    /\ result = NoRes
    /\ last = [probe |-> "none", kind |-> "none", reply |-> <<>>, res |-> NoRes]
    /\ tried = <<>>
    /\ mouse = [x |-> 0, y |-> 0]
    /\ outputName = <<>>
    /\ checked = FALSE

\* load_from_path where path.exists() is false: the default is saved and
\* returned, or the error of the save is returned
LoadMissing ==
    /\ pc = "load"
    /\ ~Exists(disk)
    /\ disk' = SaveToPath(DefaultAppConfig, disk).disk
    /\ loaded' = IF SaveToPath(DefaultAppConfig, disk).ok
                 THEN [ok |-> TRUE, cfg |-> DefaultAppConfig]
                 ELSE LoadErr
    /\ pc' = "loaded"
    /\ UNCHANGED <<result, last, tried, mouse, outputName, checked, config, app>>

\* load_from_path where path.exists() is true: fs::read_to_string, then
\* ron::from_str
LoadExisting ==
    /\ pc = "load"
    /\ Exists(disk)
    /\ loaded' = IF disk.file.kind = "file" /\ disk.file.readable
                 THEN RonScan(disk.file.text, "start", {}, NoAppConfig)
                 ELSE LoadErr
    /\ pc' = "loaded"
    /\ UNCHANGED <<result, last, tried, mouse, outputName, checked, config, disk, app>>

\* a main that unwraps the result of the load
MainUnwrap ==
    /\ pc = "loaded"
    /\ app' = loaded.cfg
    /\ config' = loaded.cfg.screen
    /\ pc' = IF loaded.ok THEN "configured" ELSE "panicked"
    /\ UNCHANGED <<result, last, tried, mouse, outputName, checked, disk, loaded>>

\* main: `match AppConfig::load()`, Err replaced by the default
MainConfig ==
    /\ pc = "loaded"
    /\ app' = IF loaded.ok THEN loaded.cfg ELSE DefaultAppConfig
    /\ config' = IF loaded.ok THEN loaded.cfg.screen ELSE DefaultAppConfig.screen
    /\ pc' = "configured"
    /\ UNCHANGED <<result, last, tried, mouse, outputName, checked, disk, loaded>>

ConfigNext ==
    \/ LoadMissing
    \/ LoadExisting
    \/ MainConfig

SpecConfig == ConfigInit /\ [][ConfigNext]_vars

\* main: the configuration is loaded, then detect is called
Init ==
    /\ pc = "hypr_focused"
    /\ result = NoRes
    /\ last = NoLast
    /\ tried = <<>>
    /\ mouse = NoMouse
    /\ outputName = <<>>
    /\ checked \in BOOLEAN
    /\ config \in ScreenConfigs
    /\ disk = [parent |-> "absent", mkdir |-> FALSE, room |-> FALSE,
             file |-> [kind |-> "absent", text |-> <<>>, readable |-> FALSE]]
    /\ loaded = LoadErr
    /\ app = NoAppConfig

\* a pass that keeps probing after a probe has produced a resolution
FinishKeepsGoing(probe, o, res, next) ==
    /\ tried' = Append(tried, probe)
    /\ last' = [probe |-> probe, kind |-> o.kind, reply |-> o.doc, res |-> res]
    /\ pc' = next
    /\ result' = IF res.ok THEN res ELSE result

\* a probe ran on outcome o and produced res: on success the pass returns
\* it, on failure control moves to `next`
Finish(probe, o, res, next) ==
    /\ tried' = Append(tried, probe)
    /\ last' = [probe |-> probe, kind |-> o.kind, reply |-> o.doc, res |-> res]
    /\ IF res.ok
       THEN pc' = "returned" /\ result' = res
       ELSE pc' = next /\ result' = result

\* a command ran whose output only selects what runs next
Forward(probe, o, next) ==
    /\ tried' = Append(tried, probe)
    /\ last' = [probe |-> probe, kind |-> o.kind, reply |-> o.doc, res |-> NoRes]
    /\ pc' = next
    /\ result' = result

\* a pass that leaves the focused-screen probes out when the configuration
\* does not prefer the focused screen
HyprlandFocusedIfPreferred ==
    /\ pc = "hypr_focused"
    /\ IF config.prefer_focused_screen
       THEN \E o \in Outcomes(PassHyprDocs) :
               Finish("hypr_focused", o, ProbeHyprFocused(o), "sway_workspaces")
       ELSE pc' = "wlr_randr" /\ UNCHANGED <<result, last, tried>>
    /\ UNCHANGED <<mouse, outputName, checked, config, disk, loaded, app>>

\* detect_linux, detect_wayland_focused_screen: detect_hyprland_focused
HyprlandFocused ==
    /\ pc = "hypr_focused"
    /\ \E o \in Outcomes(PassHyprDocs) :
          Finish("hypr_focused", o, ProbeHyprFocused(o), "sway_workspaces")
    /\ UNCHANGED <<mouse, outputName, checked, config, disk, loaded, app>>

\* detect_sway_focused, first command: swaymsg -t get_workspaces
SwayWorkspaces ==
    /\ pc = "sway_workspaces"
    /\ \E o \in Outcomes(PassWorkspaceDocs) :
          /\ Forward("sway_workspaces", o,
                     IF ProbeSwayWorkspaces(o).ok THEN "sway_outputs" ELSE "wlr_randr")
          /\ outputName' = ProbeSwayWorkspaces(o).v
    /\ UNCHANGED <<mouse, checked, config, disk, loaded, app>>

\* detect_sway_focused, second command: swaymsg -t get_outputs
SwayOutputs ==
    /\ pc = "sway_outputs"
    /\ \E o \in Outcomes(PassOutputDocs) :
          Finish("sway_outputs", o, ProbeSwayOutputs(o, outputName), "wlr_randr")
    /\ UNCHANGED <<mouse, outputName, checked, config, disk, loaded, app>>

\* a primary tier that goes from wlr-randr to swaymsg, leaving hyprctl out
WlrRandrThenSway ==
    /\ pc = "wlr_randr"
    /\ \E o \in Outcomes(PassWlrDocs) :
          Finish("wlr_randr", o, ProbeWlrRandr(o), "sway_primary")
    /\ outputName' = <<>>
    /\ UNCHANGED <<mouse, checked, config, disk, loaded, app>>

\* detect_wayland_primary_screen: wlr-randr
WlrRandr ==
    /\ pc = "wlr_randr"
    /\ \E o \in Outcomes(PassWlrDocs) :
          Finish("wlr_randr", o, ProbeWlrRandr(o), "hypr_primary")
    /\ outputName' = <<>>
    /\ UNCHANGED <<mouse, checked, config, disk, loaded, app>>

\* detect_wayland_primary_screen: hyprctl monitors -j
HyprlandPrimary ==
    /\ pc = "hypr_primary"
    /\ \E o \in Outcomes(PassHyprDocs) :
          Finish("hypr_primary", o, ProbeHyprPrimary(o), "sway_primary")
    /\ UNCHANGED <<mouse, outputName, checked, config, disk, loaded, app>>

\* detect_wayland_primary_screen: swaymsg -t get_outputs
SwayPrimary ==
    /\ pc = "sway_primary"
    /\ \E o \in Outcomes(PassOutputDocs) :
          Finish("sway_primary", o, ProbeSwayPrimary(o), "xdotool")
    /\ UNCHANGED <<mouse, outputName, checked, config, disk, loaded, app>>

\* an X11 stage that runs the primary lookup whatever xdotool printed
XdotoolThenPrimary ==
    /\ pc = "xdotool"
    /\ \E o \in Outcomes(PassMouseDocs) :
          /\ Forward("xdotool", o, "xrandr_primary")
          /\ mouse' = [x |-> ProbeMouse(o).x, y |-> ProbeMouse(o).y]
    /\ UNCHANGED <<outputName, checked, config, disk, loaded, app>>

\* an X11 stage that asks xdotool a second time when the first reply gave
\* no position
XdotoolRetried ==
    /\ pc = "xdotool"
    /\ \E o \in Outcomes(PassMouseDocs) :
          /\ Forward("xdotool", o,
                     IF ProbeMouse(o).ok THEN "xrandr_position"
                     ELSE IF tried = <<>> \/ tried[Len(tried)] # "xdotool" THEN "xdotool"
                     ELSE "xrandr_primary")
          /\ mouse' = [x |-> ProbeMouse(o).x, y |-> ProbeMouse(o).y]
    /\ UNCHANGED <<outputName, checked, config, disk, loaded, app>>

\* detect_x11_focused: xdotool getmouselocation --shell
Xdotool ==
    /\ pc = "xdotool"
    /\ \E o \in Outcomes(PassMouseDocs) :
          /\ Forward("xdotool", o,
                     IF ProbeMouse(o).ok THEN "xrandr_position" ELSE "xrandr_primary")
          /\ mouse' = [x |-> ProbeMouse(o).x, y |-> ProbeMouse(o).y]
    /\ UNCHANGED <<outputName, checked, config, disk, loaded, app>>

\* an X11 stage that runs the primary lookup when the position lookup failed
XrandrPositionThenPrimary ==
    /\ pc = "xrandr_position"
    /\ \E o \in Outcomes(PassXrandrDocs) :
          IF ProbeXrandrPosition(o, mouse, checked).abort
          THEN Forward("xrandr_position", o, "panicked")
          ELSE Finish("xrandr_position", o, ProbeXrandrPosition(o, mouse, checked),
                      "xrandr_primary")
    /\ mouse' = NoMouse
    /\ UNCHANGED <<outputName, checked, config, disk, loaded, app>>

\* detect_x11_focused returning get_x11_screen_at_position(x, y): its
\* result is the result of the X11 stage; an overflow panic ends the pass
XrandrPosition ==
    /\ pc = "xrandr_position"
    /\ \E o \in Outcomes(PassXrandrDocs) :
          IF ProbeXrandrPosition(o, mouse, checked).abort
          THEN Forward("xrandr_position", o, "panicked")
          ELSE Finish("xrandr_position", o, ProbeXrandrPosition(o, mouse, checked), "sysfs")
    /\ mouse' = NoMouse
    /\ UNCHANGED <<outputName, checked, config, disk, loaded, app>>

\* detect_x11_focused, mouse detection failed: xrandr --current and the
\* primary / any-connected lookup
XrandrPrimary ==
    /\ pc = "xrandr_primary"
    /\ \E o \in Outcomes(PassXrandrDocs) :
          Finish("xrandr_primary", o, ProbeXrandrPrimary(o), "sysfs")
    /\ mouse' = NoMouse
    /\ UNCHANGED <<outputName, checked, config, disk, loaded, app>>

\* detect_from_sysfs
Sysfs ==
    /\ pc = "sysfs"
    /\ \E o \in {[kind |-> "nospawn", doc |-> <<>>]}
                  \cup {[kind |-> "ok", doc |-> d] : d \in PassDrmDocs} :
          Finish("sysfs", o, ProbeSysfs(o), "default")
    /\ UNCHANGED <<mouse, outputName, checked, config, disk, loaded, app>>

\* detect: detect_linux returned Err, unwrap_or_default
UseDefault ==
    /\ pc = "default"
    /\ result' = DefaultScreen
    /\ pc' = "returned"
    /\ tried' = Append(tried, "default")
    /\ last' = [probe |-> "default", kind |-> "ok", reply |-> <<>>, res |-> DefaultScreen]
    /\ UNCHANGED <<mouse, outputName, checked, config, disk, loaded, app>>

Next ==
    \/ HyprlandFocused
    \/ SwayWorkspaces
    \/ SwayOutputs
    \/ WlrRandr
    \/ HyprlandPrimary
    \/ SwayPrimary
    \/ Xdotool
    \/ XrandrPosition
    \/ XrandrPrimary
    \/ Sysfs
    \/ UseDefault

Spec == Init /\ [][Next]_vars

\* a pass whose commands all return and whose file reads all complete: the
\* step that is enabled is eventually taken
SpecLive == Init /\ [][Next]_vars /\ WF_pc(Next)

-----------------------------------------------------------------------------
(* The scans on their own: an input is drawn, the scan is applied to it    *)

ScanInput(probe, doc) == [probe |-> probe, kind |-> "ok", reply |-> doc, res |-> NoRes]

\* the name the first command of detect_sway_focused hands to the second,
\* from a document whose only workspace is focused and is on output n
NameFromWorkspaces(n) ==
    FocusedOutputName(RenderWorkspaces(<<[focused |-> TRUE, output |-> n]>>)).v

\* the inputs of the scans that take a document and nothing else
ScanInputs ==
    \/ last \in {ScanInput("hypr_focused", d) : d \in HyprDocs}
    \/ last \in {ScanInput("hypr_primary", d) : d \in HyprDocs}
    \/ last \in {ScanInput("sway_workspaces", d) : d \in WorkspaceDocs}
    \/ last \in {ScanInput("sway_primary", d) : d \in OutputDocs}
    \/ last \in {ScanInput("wlr_randr", d) : d \in WlrDocs}
    \/ last \in {ScanInput("xdotool", d) : d \in MouseDocs}
    \/ last \in {ScanInput("xrandr_primary", d) : d \in XrandrDocs}
    \/ last \in {ScanInput("sysfs", d) : d \in DrmDocs}

ScanInit ==
    /\ pc = "scan"
    /\ result = NoRes
    /\ tried = <<>>
    /\ config = DefaultScreenConfig
    /\ disk = [parent |-> "absent", mkdir |-> FALSE, room |-> FALSE,
             file |-> [kind |-> "absent", text |-> <<>>, readable |-> FALSE]]
    /\ loaded = LoadErr
    /\ app = NoAppConfig
    /\ \/ /\ ScanInputs
          /\ mouse = NoMouse
          /\ outputName = <<>>
          /\ checked = FALSE
       \/ /\ last \in {ScanInput("sway_outputs", d) : d \in OutputDocs}
          /\ outputName \in {NameFromWorkspaces(n) : n \in OutputNames}
          /\ mouse = NoMouse
          /\ checked = FALSE
       \/ /\ last \in {ScanInput("xrandr_position", d) : d \in XrandrDocs}
          /\ mouse \in Cursors
          /\ outputName = <<>>
          /\ checked \in BOOLEAN

\* the scan of the drawn input
ScanResult ==
    LET o == [kind |-> "ok", doc |-> last.reply]
    IN  CASE last.probe = "hypr_focused" -> ProbeHyprFocused(o)
          [] last.probe = "hypr_primary" -> ProbeHyprPrimary(o)
          [] last.probe = "sway_outputs" -> ProbeSwayOutputs(o, outputName)
          [] last.probe = "sway_primary" -> ProbeSwayPrimary(o)
          [] last.probe = "wlr_randr" -> ProbeWlrRandr(o)
          [] last.probe = "xrandr_position" -> ProbeXrandrPosition(o, mouse, checked)
          [] last.probe = "xrandr_primary" -> ProbeXrandrPrimary(o)
          [] last.probe = "sysfs" -> ProbeSysfs(o)
          [] OTHER -> NoRes

\* a scan that yields a resolution or nothing
ScanResolution ==
    /\ pc = "scan"
    /\ last.probe \notin {"sway_workspaces", "xdotool"}
    /\ last' = [last EXCEPT !.res = ScanResult]
    /\ pc' = IF ScanResult.abort THEN "panicked" ELSE "scanned"
    /\ result' = ScanResult
    /\ UNCHANGED <<tried, mouse, outputName, checked, config, disk, loaded, app>>

\* the first command of detect_sway_focused: yields an output name
ScanWorkspaces ==
    /\ pc = "scan"
    /\ last.probe = "sway_workspaces"
    /\ outputName' = ProbeSwayWorkspaces([kind |-> "ok", doc |-> last.reply]).v
    /\ last' = [last EXCEPT !.res =
                   IF ProbeSwayWorkspaces([kind |-> "ok", doc |-> last.reply]).ok
                   THEN Res(0, 0) ELSE NoRes]
    /\ pc' = "scanned"
    /\ UNCHANGED <<result, tried, mouse, checked, config, disk, loaded, app>>

\* the first command of detect_x11_focused: yields a cursor position
ScanMouse ==
    /\ pc = "scan"
    /\ last.probe = "xdotool"
    /\ mouse' = [x |-> ProbeMouse([kind |-> "ok", doc |-> last.reply]).x,
                 y |-> ProbeMouse([kind |-> "ok", doc |-> last.reply]).y]
    /\ last' = [last EXCEPT !.res =
                   IF ProbeMouse([kind |-> "ok", doc |-> last.reply]).ok
                   THEN Res(0, 0) ELSE NoRes]
    /\ pc' = "scanned"
    /\ UNCHANGED <<result, tried, outputName, checked, config, disk, loaded, app>>

ScanNext == ScanResolution \/ ScanWorkspaces \/ ScanMouse

SpecScan == ScanInit /\ [][ScanNext]_vars

-----------------------------------------------------------------------------
(* Claims about one detection pass (Spec)                                  *)

\* the stage of detect_linux a probe belongs to; 5 is the default
StageOf(probe) ==
    CASE probe \in {"hypr_focused", "sway_workspaces", "sway_outputs"} -> 1
      [] probe \in {"wlr_randr", "hypr_primary", "sway_primary"} -> 2
      [] probe \in {"xdotool", "xrandr_position", "xrandr_primary"} -> 3
      [] probe = "sysfs" -> 4
      [] OTHER -> 5

Running == pc \notin {"returned", "panicked", "scan", "scanned"}

\* C1: detect returns a resolution whatever the probes yield, the default
\* 1920x1080 when all four stages fail, and no failure reaches the caller:
\* the pass never aborts, a pass that is not over can go on, and a pass
\* that is over holds a resolution, the default one if its last stage was
\* the default.
C1_DetectAlwaysReturns ==
    /\ pc # "panicked"
    /\ Running => ENABLED Next
    /\ pc = "returned" => result.ok
    /\ (pc = "returned" /\ last.probe = "default")
          => result.width = 1920 /\ result.height = 1080

\* C2: the stages are attempted in the order 1..5 with none skipped, a stage
\* is attempted only after every probe before it failed, the result is that
\* of the first probe to succeed, and nothing runs after a success.
C2_StageOrder ==
    /\ tried # <<>> => StageOf(tried[1]) = 1
    /\ \A i \in 1..(Len(tried) - 1) :
          StageOf(tried[i + 1]) \in {StageOf(tried[i]), StageOf(tried[i]) + 1}
    /\ Running => ~result.ok /\ ~last.res.ok
    /\ result.ok => /\ pc = "returned"
                    /\ result = last.res
                    /\ last.probe = tried[Len(tried)]
                    /\ ~ENABLED Next

\* a pass in which three stages failed and the fourth produced the result
C2_Witness ==
    /\ pc = "returned"
    /\ last.probe = "sysfs"
    /\ result.ok
    /\ \E i \in 1..Len(tried) : tried[i] = "wlr_randr"
    /\ \E i \in 1..Len(tried) : tried[i] = "xrandr_primary"

\* C3: every resolution a probe returns, and so detect, has a non-negative
\* width and a non-negative height.
C3_NonNegative ==
    /\ last.res.ok => last.res.width >= 0 /\ last.res.height >= 0
    /\ result.ok => result.width >= 0 /\ result.height >= 0

\* where control goes when a probe yields nothing
FallThrough(probe) ==
    CASE probe = "hypr_focused" -> "sway_workspaces"
      [] probe \in {"sway_workspaces", "sway_outputs"} -> "wlr_randr"
      [] probe = "wlr_randr" -> "hypr_primary"
      [] probe = "hypr_primary" -> "sway_primary"
      [] probe = "sway_primary" -> "xdotool"
      [] probe = "xdotool" -> "xrandr_primary"
      [] probe \in {"xrandr_position", "xrandr_primary"} -> "sysfs"
      [] OTHER -> "default"

\* the output the focused workspace is on, as the workspace document named it
TargetName == CHOOSE n \in OutputNames : NameFromWorkspaces(n) = outputName

\* the document is well formed and holds no object the probe looks for
TargetMissing(probe, doc) ==
    CASE probe = "hypr_focused" -> \A i \in 1..Len(doc) : ~doc[i].focused
      [] probe = "sway_workspaces" -> \A i \in 1..Len(doc) : ~doc[i].focused
      [] probe = "sway_outputs" -> \A i \in 1..Len(doc) : doc[i].name # TargetName
      [] probe = "wlr_randr" -> \A i \in 1..Len(doc) : ~(~doc[i].header /\ doc[i].current)
      [] probe = "hypr_primary" -> doc = <<>>
      [] probe = "sway_primary" ->
            \A i \in 1..Len(doc) : \A j \in 1..Len(doc[i].modes) : ~doc[i].modes[j].current
      [] probe = "xdotool" -> ~doc.hasY
      [] probe \in {"xrandr_position", "xrandr_primary"} ->
            \A i \in 1..Len(doc) : ~doc[i].connected
      [] probe = "sysfs" ->
            \A i \in 1..Len(doc) : ~(StartsWith(doc[i].name, KwCard) /\ HasChar(doc[i].name, "-"))
      [] OTHER -> FALSE

\* the last probe failed in one of the four ways
FailedProbe ==
    /\ last.probe \notin {"none", "default"}
    /\ \/ last.kind \in {"nospawn", "nonzero", "garbage"}
       \/ last.kind = "ok" /\ TargetMissing(last.probe, last.reply)

\* C4: a probe whose command could not be spawned, exited non-zero, printed
\* something unparsable, or printed a well-formed document without the
\* target yields no resolution, control falls through to the next probe or
\* stage, and nothing propagates out of detect.
C4_FailuresFallThrough ==
    FailedProbe => /\ ~last.res.ok
                   /\ ~result.ok
                   /\ pc = FallThrough(last.probe)

\* C5: Hyprland focused runs before Sway focused, Sway only after Hyprland
\* failed; wlr-randr runs first in the primary tier, hyprctl only after it
\* failed, swaymsg get_outputs only after both failed; a tier returns the
\* result of its first probe to succeed.
C5_TierOrder ==
    /\ tried # <<>> => tried[1] = "hypr_focused"
    /\ \A i \in 1..Len(tried) :
          /\ tried[i] = "sway_workspaces" => i > 1 /\ tried[i - 1] = "hypr_focused"
          /\ tried[i] = "sway_outputs" => i > 1 /\ tried[i - 1] = "sway_workspaces"
          /\ tried[i] = "wlr_randr"
                => i > 1 /\ tried[i - 1] \in {"sway_workspaces", "sway_outputs"}
          /\ tried[i] = "hypr_primary" => i > 1 /\ tried[i - 1] = "wlr_randr"
          /\ tried[i] = "sway_primary" => i > 1 /\ tried[i - 1] = "hypr_primary"
    /\ Running => ~last.res.ok
    /\ (pc = "returned" /\ StageOf(last.probe) \in {1, 2})
          => result = last.res /\ last.probe = tried[Len(tried)]

\* a pass in which wlr-randr and hyprctl failed and swaymsg get_outputs
\* produced the result of the primary tier, after both focused probes failed
C5_Witness ==
    /\ pc = "returned"
    /\ last.probe = "sway_primary"
    /\ result.ok
    /\ Len(tried) >= 5
    /\ tried[1] = "hypr_focused"
    /\ tried[2] = "sway_workspaces"

-----------------------------------------------------------------------------
(* Claims about the scans (SpecScan)                                       *)

Scanned(probe) == pc \in {"scanned", "panicked"} /\ last.probe = probe

\* the least element of a non-empty set of indices
First(S) == CHOOSE i \in S : \A j \in S : i <= j

\* the monitor objects whose focus field is true
FocusedMonitors(doc) == {i \in 1..Len(doc) : doc[i].focused}

\* the monitor object holds a width and a height and a brace closes it
CompleteMonitor(m) == m.hasW /\ m.hasH /\ m.lone

\* C6: the Hyprland focus-gated scan returns the width and height of the
\* object whose focus field is true, wherever the focus line stands among
\* its lines, when the object holds both and a brace closes it; it returns
\* nothing when no object is focused, and the first such object's width and
\* height when several are.
C6_FocusGatedScan ==
    Scanned("hypr_focused") =>
        LET doc == last.reply
            F == FocusedMonitors(doc)
        IN  /\ F = {} => ~last.res.ok
            /\ (F # {} /\ \A i \in F : CompleteMonitor(doc[i]))
                  => last.res = Res(ModeW(First(F)), ModeH(First(F)))

\* the outputs of an xrandr listing the position lookup parses
Entries(doc) == {i \in 1..Len(doc) : doc[i].connected /\ doc[i].geom.form = "full"}

\* the rectangle of g holds the cursor m
Inside(m, g) ==
    /\ m.x >= g.x /\ m.x - g.x < g.w
    /\ m.y >= g.y /\ m.y - g.y < g.h

\* how far p is outside the span of len cells that starts at s
AxisDistance(p, s, len) ==
    IF p < s THEN s - p
    ELSE IF p - s >= len THEN (p - s) - (len - 1)
    ELSE 0

Distance(m, g) == AxisDistance(m.x, g.x, g.w) + AxisDistance(m.y, g.y, g.h)

\* C7: when the rectangle of a parsed entry holds the cursor, the position
\* lookup returns the first such entry in output order, whatever the
\* distances of the entries before it.
C7_Containment ==
    Scanned("xrandr_position") =>
        LET doc == last.reply
            H == {i \in Entries(doc) : Inside(mouse, doc[i].geom)}
        IN  H # {} => last.res = Res(doc[First(H)].geom.w, doc[First(H)].geom.h)

\* C8: when no parsed rectangle holds the cursor, the position lookup
\* returns an entry at the least distance (horizontal gap plus vertical gap,
\* zero inside the span), the first such entry in output order.
C8_ClosestDistance ==
    Scanned("xrandr_position") =>
        LET doc == last.reply
            E == Entries(doc)
            H == {i \in E : Inside(mouse, doc[i].geom)}
            M == {i \in E : \A j \in E :
                     Distance(mouse, doc[i].geom) <= Distance(mouse, doc[j].geom)}
        IN  (E # {} /\ H = {})
               => last.res = Res(doc[First(M)].geom.w, doc[First(M)].geom.h)

\* the modes of an output that are marked current
CurrentModes(o) == {j \in 1..Len(o.modes) : o.modes[j].current}

\* C9: the Sway two-stage lookup, for the focused workspace's output name N,
\* returns the current mode of the one output named exactly N (a name that
\* merely contains N does not count), and fails when no output is named N.
C9_ExactName ==
    Scanned("sway_outputs") =>
        LET doc == last.reply
            named == {i \in 1..Len(doc) : doc[i].name = TargetName}
        IN  /\ named = {} => ~last.res.ok
            /\ \A i \in named :
                  (/\ named = {i}
                   /\ \E j \in CurrentModes(doc[i]) :
                         CurrentModes(doc[i]) = {j} /\ doc[i].modes[j].hasH)
                  => LET k == SwayModeIndex(i, First(CurrentModes(doc[i])))
                     IN  last.res = Res(ModeW(k), ModeH(k))

\* C10: the positional scan recovers W, H, X and Y from a well-formed
\* WxH+X+Y token and finds no match in a token that lacks a separator or
\* has a non-numeric field, so that such a token contributes no candidate
\* and no result, in the position lookup and in the primary and
\* any-connected lookups alike.
C10_PositionalScan ==
    /\ (Scanned("xrandr_position") \/ Scanned("xrandr_primary")) =>
          \A i \in 1..Len(last.reply) :
              LET g == last.reply[i].geom
                  token == RenderGeometry(g)
              IN  IF g.form = "full"
                  THEN /\ ParseGeometry(token)
                             = [ok |-> TRUE, width |-> g.w, height |-> g.h, x |-> g.x, y |-> g.y]
                       /\ ParseResPart(token) = Res(g.w, g.h)
                  ELSE /\ ~ParseGeometry(token).ok
                       /\ ~ParseResPart(token).ok
    /\ (Scanned("xrandr_position") \/ Scanned("xrandr_primary")) =>
          ((\A i \in 1..Len(last.reply) : last.reply[i].geom.form # "full") => ~last.res.ok)

-----------------------------------------------------------------------------
(* Further claims about one detection pass (Spec, SpecLive)                *)

X11Probes == {"xdotool", "xrandr_position", "xrandr_primary"}

\* C11: the X11 stage (xdotool, xrandr) is attempted only when the flag
\* allow_x11_fallback is true; with the flag false a pass whose Wayland
\* stages both failed goes on to sysfs and issues no X11 command.
C11_X11OnlyWhenAllowed ==
    ~config.allow_x11_fallback =>
        /\ \A i \in 1..Len(tried) : tried[i] \notin X11Probes
        /\ pc \notin X11Probes
        /\ (Running /\ last.probe = "sway_primary") => pc = "sysfs"

\* C12: a pass whose commands all return and whose reads all complete
\* reaches a returned resolution after finitely many steps.
C12_Terminates == <>(pc = "returned")

\* xdotool did not yield a cursor position
MouseFailed ==
    /\ last.probe = "xdotool"
    /\ (last.kind # "ok" \/ ~last.reply.hasY)

\* xdotool ran and printed a parsable cursor position
MouseFound ==
    /\ last.probe = "xdotool"
    /\ last.kind = "ok"
    /\ last.reply.hasY

\* C18: inside the X11 stage the primary / any-connected lookup runs only
\* after the mouse-based detection failed, and never in a pass in which the
\* position lookup ran.
C18_PrimaryAfterMouseFailed ==
    /\ pc = "xrandr_primary" => MouseFailed
    /\ \A i \in 1..Len(tried) :
          tried[i] = "xrandr_primary"
             => /\ i > 1 /\ tried[i - 1] = "xdotool"
                /\ \A j \in 1..Len(tried) : tried[j] # "xrandr_position"

\* a pass in which xdotool failed and the primary lookup gave the result
C18_Witness ==
    /\ pc = "returned"
    /\ last.probe = "xrandr_primary"
    /\ result.ok
    /\ tried[Len(tried) - 1] = "xdotool"

\* C19: when xdotool yields a parsable cursor position the outcome of the
\* X11 stage is the outcome of the position lookup: its resolution is the
\* result, and when it fails (xrandr fails, or no connected line carries a
\* fully parsable WxH+X+Y token) the stage fails and the pass goes on to
\* sysfs without the primary / any-connected lookup being run.
C19_PositionOutcomeIsStageOutcome ==
    /\ MouseFound => pc = "xrandr_position"
    /\ pc = "xrandr_position" => MouseFound
    /\ last.probe = "xrandr_position" =>
          /\ last.res.ok => pc = "returned" /\ result = last.res
          /\ (~last.res.ok /\ pc # "panicked") => pc = "sysfs"
          /\ (last.kind # "ok" \/ Entries(last.reply) = {})
                => ~last.res.ok /\ pc = "sysfs"
    /\ (\E i \in 1..Len(tried) : tried[i] = "xrandr_position")
          => \A j \in 1..Len(tried) : tried[j] # "xrandr_primary"

\* a pass whose position lookup failed on an xrandr listing from which the
\* primary / any-connected lookup would have produced a resolution
C19_Witness ==
    /\ pc = "sysfs"
    /\ last.probe = "xrandr_position"
    /\ last.kind = "ok"
    /\ ParseXrandrFallback(RenderXrandr(last.reply)).ok

-----------------------------------------------------------------------------
(* Further claims about the scans (SpecScan)                               *)

\* a focused monitor object whose focus line precedes its fields and which
\* a lone brace closes
GatedMonitor(m) == m.focused /\ m.focusFirst /\ m.lone

\* an output whose only current mode is its last one, which a lone brace
\* closes: complete, or lacking its height
CompleteOutput(o) ==
    /\ o.modes # <<>>
    /\ CurrentModes(o) = {Len(o.modes)}
    /\ o.modes[Len(o.modes)].hasH

LackingOutput(o) ==
    /\ o.modes # <<>>
    /\ CurrentModes(o) = {Len(o.modes)}
    /\ ~o.modes[Len(o.modes)].hasH

\* C13: in the Hyprland focused, Sway by-name and Sway primary scans, a lone
\* closing brace that ends a matching object lacking its width or height
\* resets the accumulator and the scan goes on: a later matching object of
\* the same document that has both fields is returned.
C13_BraceReset ==
    /\ Scanned("hypr_focused") =>
          LET doc == last.reply
              good == {j \in 1..Len(doc) :
                          GatedMonitor(doc[j]) /\ doc[j].hasW /\ doc[j].hasH}
              bad == {i \in 1..Len(doc) :
                         GatedMonitor(doc[i]) /\ ~(doc[i].hasW /\ doc[i].hasH)}
          IN  (/\ good # {} /\ bad # {}
               /\ FocusedMonitors(doc) = good \cup bad
               /\ First(bad) < First(good))
              => last.res = Res(ModeW(First(good)), ModeH(First(good)))
    /\ Scanned("sway_primary") =>
          LET doc == last.reply
              good == {j \in 1..Len(doc) : CompleteOutput(doc[j])}
              bad == {i \in 1..Len(doc) : LackingOutput(doc[i])}
          IN  (/\ good # {} /\ bad # {}
               /\ \A i \in 1..(First(good) - 1) : i \in bad)
              => LET k == SwayModeIndex(First(good), Len(doc[First(good)].modes))
                 IN  last.res = Res(ModeW(k), ModeH(k))
    /\ Scanned("sway_outputs") =>
          LET doc == last.reply
              good == {j \in 1..Len(doc) :
                          doc[j].name = TargetName /\ CompleteOutput(doc[j])}
              bad == {i \in 1..Len(doc) :
                         /\ doc[i].name = TargetName
                         /\ LackingOutput(doc[i])
                         /\ ~doc[i].modesLast}
          IN  (/\ good # {} /\ bad # {}
               /\ \A i \in 1..(First(good) - 1) : i \in bad)
              => LET k == SwayModeIndex(First(good), Len(doc[First(good)].modes))
                 IN  last.res = Res(ModeW(k), ModeH(k))

\* C14: the Hyprland focused probe returns no width or height of a monitor
\* object other than the focused one, also when the objects are separated
\* by lines such as "}," and other objects follow the focused one: what it
\* returns is the focused object's own width and height.
C14_OwnFieldsOnly ==
    Scanned("hypr_focused") =>
        LET doc == last.reply
            F == FocusedMonitors(doc)
        IN  last.res.ok =>
               \E f \in F : /\ doc[f].hasW /\ doc[f].hasH
                            /\ last.res = Res(ModeW(f), ModeH(f))

\* the workspaces whose focused field is true
FocusedWorkspaces(doc) == {i \in 1..Len(doc) : doc[i].focused}

\* C15: the first step of the Sway focused probe selects the output field
\* of the workspace whose focused field is true, not that of the first
\* workspace of the document.
C15_FocusedWorkspaceOutput ==
    Scanned("sway_workspaces") =>
        LET doc == last.reply
            F == FocusedWorkspaces(doc)
        IN  \A f \in F :
               F = {f} => /\ last.res.ok
                          /\ outputName = NameFromWorkspaces(doc[f].output)

\* C16: parse_sway_output_by_name returns only the width and height of a
\* mode marked current inside the record named as the target; when that
\* record has no complete current mode it returns nothing, not the current
\* mode of a record that follows.
C16_TargetRecordOnly ==
    Scanned("sway_outputs") =>
        LET doc == last.reply
        IN  last.res.ok =>
               \E i \in 1..Len(doc) :
                  /\ doc[i].name = TargetName
                  /\ \E j \in CurrentModes(doc[i]) :
                        /\ doc[i].modes[j].hasH
                        /\ last.res = Res(ModeW(SwayModeIndex(i, j)),
                                          ModeH(SwayModeIndex(i, j)))

\* the connected outputs of an xrandr listing that carry a geometry
ConnectedEntries(doc) ==
    {i \in 1..Len(doc) : doc[i].connected /\ doc[i].geom.form # "none"}

\* C17: the X11 primary / any-connected lookup returns the resolution of
\* the first connected entry marked primary, if there is one, otherwise of
\* the first connected entry; it never takes a resolution from the line of
\* a disconnected output.
C17_PrimaryElseConnected ==
    Scanned("xrandr_primary") =>
        LET doc == last.reply
            E == ConnectedEntries(doc)
            P == {i \in E : doc[i].primary}
        IN  /\ last.res.ok =>
                  \E i \in E : last.res = Res(doc[i].geom.w, doc[i].geom.h)
            /\ (\A i \in 1..Len(doc) : doc[i].geom.form \in {"full", "none"}) =>
                  /\ P # {} => last.res = Res(doc[First(P)].geom.w, doc[First(P)].geom.h)
                  /\ (P = {} /\ E # {})
                        => last.res = Res(doc[First(E)].geom.w, doc[First(E)].geom.h)
                  /\ E = {} => ~last.res.ok

\* the mode lines of a wlr-randr listing that are marked current
CurrentLines(doc) == {i \in 1..Len(doc) : ~doc[i].header /\ doc[i].current}

\* C20: parse_wlr_randr_output returns the WxH pair of the first line that
\* holds the "current" marker and whose first token splits on 'x' into two
\* numbers; a line without the marker is never used, and a marked line
\* whose first token is no WxH pair is skipped without ending the scan.
C20_FirstCurrentLine ==
    Scanned("wlr_randr") =>
        LET doc == last.reply
            M == CurrentLines(doc)
        IN  IF M = {} THEN ~last.res.ok
            ELSE last.res = Res(ModeW(doc[First(M)].k), ModeH(doc[First(M)].k))

\* a listing whose first line is marked but has no WxH token, whose second
\* is an unmarked mode line, and whose third is the line returned
C20_Witness ==
    /\ Scanned("wlr_randr")
    /\ Len(last.reply) = 3
    /\ last.reply[1].header /\ last.reply[1].k = 2
    /\ ~last.reply[2].header /\ ~last.reply[2].current
    /\ ~last.reply[3].header /\ last.reply[3].current
    /\ last.res = Res(ModeW(last.reply[3].k), ModeH(last.reply[3].k))

\* the entries of /sys/class/drm the probe looks into: named card* with a
\* '-' in the name
CardEntries(doc) ==
    {i \in 1..Len(doc) : doc[i].name = <<"c", "a", "r", "d", "0", "-", "D", "P", "-", "1">>}

\* the first line of entry i's modes file that is a WxH pair of numbers
\* (a width written with a minus sign is a number), if the file is readable
\* and has one
ModesToken(doc, i) ==
    CASE doc[i].file = "modes" -> Res(ModeW(i), ModeH(i))
      [] doc[i].file = "negative" -> Res(-ModeW(i), ModeH(i))
      [] doc[i].file = "interlaced" -> Res(ModeW(i + 1), ModeH(i + 1))
      [] OTHER -> NoRes

\* the card entries whose modes file is readable
ReadableEntries(doc) == {i \in CardEntries(doc) : doc[i].file # "unreadable"}

\* the card entries whose modes file is readable and holds a WxH token
TokenEntries(doc) == {i \in CardEntries(doc) : ModesToken(doc, i).ok}

\* C21 as stated: the resolution detect_from_sysfs returns is the first
\* parsable WxH token of the first readable modes file of a card*-* entry,
\* and the probe fails only if that yields no token.
C21_FirstReadableFile ==
    Scanned("sysfs") =>
        LET doc == last.reply
            R == ReadableEntries(doc)
        IN  IF last.res.ok
            THEN R # {} /\ last.res = ModesToken(doc, First(R))
            ELSE R = {} \/ ~ModesToken(doc, First(R)).ok

\* C21: the resolution detect_from_sysfs returns is the first parsable WxH
\* token of the first card*-* entry, in iteration order, whose modes file
\* is readable and holds such a token; readable files without a token are
\* passed over, entries of other names are never read, and the probe fails
\* exactly when no entry yields a token.
C21_FirstTokenFound ==
    Scanned("sysfs") =>
        LET doc == last.reply
            T == TokenEntries(doc)
        IN  IF T = {} THEN ~last.res.ok
            ELSE last.res = ModesToken(doc, First(T))

\* the first card entry is readable and empty, the second holds an
\* interlaced mode before the mode returned
C21_Witness ==
    /\ Scanned("sysfs")
    /\ Len(last.reply) = 2
    /\ CardEntries(last.reply) = {1, 2}
    /\ last.reply[1].file = "empty"
    /\ last.reply[2].file = "interlaced"
    /\ last.res = Res(ModeW(3), ModeH(3))

\* where a pass goes after the probe p has run on the output o, with the
\* cursor m, the output name n and the overflow behaviour chk of the build:
\* a function of these alone
AfterProbe(p, o, m, n, chk) ==
    CASE p = "hypr_focused" ->
            IF ProbeHyprFocused(o).ok THEN "returned" ELSE "sway_workspaces"
      [] p = "sway_workspaces" ->
            IF ProbeSwayWorkspaces(o).ok THEN "sway_outputs" ELSE "wlr_randr"
      [] p = "sway_outputs" ->
            IF ProbeSwayOutputs(o, n).ok THEN "returned" ELSE "wlr_randr"
      [] p = "wlr_randr" ->
            IF ProbeWlrRandr(o).ok THEN "returned" ELSE "hypr_primary"
      [] p = "hypr_primary" ->
            IF ProbeHyprPrimary(o).ok THEN "returned" ELSE "sway_primary"
      [] p = "sway_primary" ->
            IF ProbeSwayPrimary(o).ok THEN "returned" ELSE "xdotool"
      [] p = "xdotool" ->
            IF ProbeMouse(o).ok THEN "xrandr_position" ELSE "xrandr_primary"
      [] p = "xrandr_position" ->
            IF ProbeXrandrPosition(o, m, chk).abort THEN "panicked"
            ELSE IF ProbeXrandrPosition(o, m, chk).ok THEN "returned" ELSE "sysfs"
      [] p = "xrandr_primary" ->
            IF ProbeXrandrPrimary(o).ok THEN "returned" ELSE "sysfs"
      [] p = "sysfs" ->
            IF ProbeSysfs(o).ok THEN "returned" ELSE "default"
      [] OTHER -> "returned"

Evaluated(doc, m) ==
    {i \in Entries(doc) : \A j \in Entries(doc) : j < i => ~Inside(m, doc[j].geom)}

\* C23: for every cursor and every parsed geometry entry the sums and
\* differences of the containment test and of the distance computation
\* stay within the signed 32-bit range, and the position lookup ends with a
\* resolution or a failure, never with an abort.
C23_NoOverflow ==
    Scanned("xrandr_position") =>
        /\ pc # "panicked"
        /\ \A i \in Evaluated(last.reply, mouse) :
              LET g == last.reply[i].geom
              IN  ~EntryEval(mouse.x, mouse.y,
                             [x |-> g.x, y |-> g.y, width |-> g.w, height |-> g.h]).ovf

\* how many of the probes attempted are in the set S
Attempts(S) == Cardinality({i \in 1..Len(tried) : tried[i] \in S})

\* C24: no probe is attempted more than once in a pass; the X11 stage runs
\* xdotool at most once and xrandr at most once, whether the xrandr run is
\* that of the position lookup or that of the primary lookup.
C24_NoRetries ==
    /\ \A i, j \in 1..Len(tried) : tried[i] = tried[j] => i = j
    /\ Attempts({"xdotool"}) <= 1
    /\ Attempts({"xrandr_position", "xrandr_primary"}) <= 1
    /\ pc \notin {"returned", "panicked"} => \A i \in 1..Len(tried) : tried[i] # pc

\* a pass in which every probe failed: ten attempts, among them xdotool
\* once and xrandr once
C24_Witness ==
    /\ pc = "returned"
    /\ last.probe = "default"
    /\ Attempts({"xdotool"}) = 1
    /\ Attempts({"xrandr_position", "xrandr_primary"}) = 1
    /\ Len(tried) = 10

------------------------------------------------------------------------------
(* Claims about loading the configuration (SpecConfig)                     *)

\* the default configuration can be saved at the path: nothing is at the
\* path, its directory is there or can be created, and a file can be
\* written in it
Savable(d) ==
    /\ d.file.kind = "absent"
    /\ d.parent = "dir" \/ (d.parent = "absent" /\ d.mkdir)
    /\ d.room

\* C25: load_from_path on a path where nothing exists creates the parent
\* directory, writes the text of the default configuration there and
\* returns the default; when the save fails it returns an error and writes
\* no file; whatever is at the path before the load is still there after
\* it, unchanged; and main goes on with the loaded configuration, or with
\* the default when the load returned an error, and never aborts.
C25_LoadNeverAborts ==
    [][/\ pc = "load" =>
             /\ pc' = "loaded"
             /\ disk.file.kind # "absent" => disk' = disk
             /\ Savable(disk) =>
                   /\ loaded' = [ok |-> TRUE, cfg |-> DefaultAppConfig]
                   /\ disk'.parent = "dir"
                   /\ disk'.file.kind = "file"
                   /\ disk'.file.text = RenderConfig(DefaultAppConfig)
                   /\ RonScan(disk'.file.text, "start", {}, NoAppConfig).cfg = DefaultAppConfig
             /\ (~Exists(disk) /\ ~Savable(disk)) =>
                   /\ ~loaded'.ok
                   /\ disk'.file = disk.file
       /\ pc = "loaded" =>
             /\ pc' = "configured"
             /\ app' = IF loaded.ok THEN loaded.cfg ELSE DefaultAppConfig
             /\ config' = app'.screen
             /\ disk' = disk]_vars

\* nothing was at the path, the parent directory was created, the write
\* failed, and main went on with the default configuration
C25_Witness ==
    /\ pc = "configured"
    /\ ~loaded.ok
    /\ disk.parent = "dir" /\ disk.mkdir
    /\ disk.file.kind = "absent"
    /\ app = DefaultAppConfig

\* C26: the width and the height parse_hyprctl_output returns are those of
\* one monitor object of the list, also when an earlier object holds only
\* one of the two fields: never the width of one object with the height of
\* another.
C26_SameMonitor ==
    Scanned("hypr_primary") =>
        (last.res.ok =>
            \E i \in 1..Len(last.reply) :
                /\ last.reply[i].hasW /\ last.reply[i].hasH
                /\ last.res = Res(ModeW(i), ModeH(i)))

====
